---- MODULE Spec2Model ----
(***************************************************************************)
(* A model of the secure file-access gate of Gemini-mcp:                   *)
(*   utils/security.js     (src/unnamed/part_000)                          *)
(*   utils/file-reader.js  (src/dist/utils/file-reader.js)                 *)
(*                                                                         *)
(* Strings are sequences of tokens.  A token is one of the characters      *)
(* "/", "\" and "." (and, in glob patterns, "*" and the globstar "**"), or  *)
(* an atom: an indivisible run of name characters such as "env" or "src".  *)
(* So ".." is <<".", ".">> and "vendor..lib" is <<"vendor",".",".","lib">>;*)
(* prefix, split, replace and glob matching work on tokens the way the     *)
(* JavaScript works on characters.  `path` is Node's POSIX implementation. *)
(***************************************************************************)
EXTENDS Integers, Sequences, FiniteSets, TLC

VARIABLES
  call,      \* the operation under way and its arguments (fixed by Init)
  fs,        \* the filesystem: resolved absolute path -> entry
  phase,     \* position of the top-level operation
  tasks,     \* the per-file loads of the call (readFile: one; readFiles: one per input)
  errors,    \* readFiles' local `errors` array
  ioLog,     \* in order: the filesystem operations of the operation itself, then each load as it settles
  outcome    \* what the call returned or threw

vars == <<call, fs, phase, tasks, errors, ioLog, outcome>>

----------------------------------------------------------------------------
(* Bounds of the model *)

\* longest input string (in tokens) enumerated for the pure path predicates
MaxLen == 5

\* longest input string (in tokens) enumerated for the sensitive-file check
MaxNameLen == 4

----------------------------------------------------------------------------
(* Strings *)

SLASH == "/"
BSLASH == "\\"
DOT == "."
DotDot == <<DOT, DOT>>

\* every string of at most n tokens over alphabet A
StringsUpTo(A, n) == UNION { [1..k -> A] : k \in 0..n }

\* s.startsWith(p)
StartsWith(s, p) == Len(s) >= Len(p) /\ SubSeq(s, 1, Len(p)) = p

\* s.includes(p)
Includes(s, p) == \E i \in 1..(Len(s) - Len(p) + 1) : SubSeq(s, i, i + Len(p) - 1) = p

RECURSIVE SplitFrom(_, _, _, _)
SplitFrom(s, seps, i, cur) ==
  IF i > Len(s) THEN <<cur>>
  ELSE IF s[i] \in seps THEN <<cur>> \o SplitFrom(s, seps, i + 1, <<>>)
  ELSE SplitFrom(s, seps, i + 1, Append(cur, s[i]))

\* s.split(/[seps]/): the segments between separators, empty ones included
Split(s, seps) == SplitFrom(s, seps, 1, <<>>)

RECURSIVE Join(_, _)
\* segs.join(sep)
Join(segs, sep) ==
  IF Len(segs) = 0 THEN <<>>
  ELSE IF Len(segs) = 1 THEN segs[1]
  ELSE segs[1] \o <<sep>> \o Join(Tail(segs), sep)

\* s.replace(/\\/g, '/')
ReplaceBackslashes(s) == [i \in 1..Len(s) |-> IF s[i] = BSLASH THEN SLASH ELSE s[i]]

----------------------------------------------------------------------------
(* Node's path module (POSIX) *)

\* process.cwd()
CWD == <<SLASH, "w">>

\* path.isAbsolute(p)
PathIsAbsolute(p) == Len(p) > 0 /\ p[1] = SLASH

RECURSIVE NormalizeString(_, _, _)
\* normalizeString(path, allowAboveRoot): drop empty and "." segments, let ".."
\* remove the segment before it; a ".." with nothing to remove is kept when
\* allowAboveRoot and dropped otherwise
NormalizeString(segs, acc, allowAboveRoot) ==
  IF Len(segs) = 0 THEN acc
  ELSE LET s == Head(segs) IN
       IF s = <<>> \/ s = <<DOT>> THEN NormalizeString(Tail(segs), acc, allowAboveRoot)
       ELSE IF s = DotDot
            THEN IF Len(acc) > 0 /\ acc[Len(acc)] # DotDot
                 THEN NormalizeString(Tail(segs), SubSeq(acc, 1, Len(acc) - 1), allowAboveRoot)
                 ELSE IF allowAboveRoot
                 THEN NormalizeString(Tail(segs), Append(acc, s), allowAboveRoot)
                 ELSE NormalizeString(Tail(segs), acc, allowAboveRoot)
            ELSE NormalizeString(Tail(segs), Append(acc, s), allowAboveRoot)

NormalizeSegs(segs, acc) == NormalizeString(segs, acc, FALSE)

\* the segments of a resolved absolute path
AbsSegs(abs) == NormalizeSegs(Split(abs, {SLASH}), <<>>)

\* path.resolve(base, p), base already absolute
PathResolveFrom(base, p) ==
  LET full == IF PathIsAbsolute(p) THEN p
              ELSE IF Len(p) = 0 THEN base
              ELSE base \o <<SLASH>> \o p
  IN <<SLASH>> \o Join(NormalizeSegs(Split(full, {SLASH}), <<>>), SLASH)

\* path.resolve(p)
PathResolve(p) == PathResolveFrom(CWD, p)

RECURSIVE CommonPrefixLen(_, _)
CommonPrefixLen(a, b) ==
  IF Len(a) = 0 \/ Len(b) = 0 \/ Head(a) # Head(b) THEN 0
  ELSE 1 + CommonPrefixLen(Tail(a), Tail(b))

\* path.relative(from, to)
PathRelative(from, to) ==
  LET f == AbsSegs(PathResolve(from))
      t == AbsSegs(PathResolve(to))
      c == CommonPrefixLen(f, t)
  IN Join([i \in 1..(Len(f) - c) |-> DotDot] \o SubSeq(t, c + 1, Len(t)), SLASH)

\* path.basename(p): the last segment, trailing slashes ignored
PathBasename(p) ==
  LET segs == SelectSeq(Split(p, {SLASH}), LAMBDA s : s # <<>>)
  IN IF Len(segs) = 0 THEN <<>> ELSE segs[Len(segs)]

\* path.normalize(p)
PathNormalize(p) ==
  IF Len(p) = 0 THEN <<DOT>>
  ELSE LET isAbsolute == p[1] = SLASH
           trailing == p[Len(p)] = SLASH
           body == Join(NormalizeString(Split(p, {SLASH}), <<>>, ~isAbsolute), SLASH)
       IN IF Len(body) = 0
          THEN IF isAbsolute THEN <<SLASH>> ELSE IF trailing THEN <<DOT, SLASH>> ELSE <<DOT>>
          ELSE (IF isAbsolute THEN <<SLASH>> ELSE <<>>) \o body
               \o (IF trailing THEN <<SLASH>> ELSE <<>>)

\* path.join(a, b)
PathJoin(a, b) ==
  LET full == IF Len(a) = 0 THEN b ELSE IF Len(b) = 0 THEN a ELSE a \o <<SLASH>> \o b IN
  IF Len(full) = 0 THEN <<DOT>> ELSE PathNormalize(full)

\* index of the last "." of s, 0 if there is none
LastDot(s) ==
  LET dots == {i \in 1..Len(s) : s[i] = DOT} IN
  IF dots = {} THEN 0 ELSE CHOOSE i \in dots : \A j \in dots : j <= i

\* path.extname(p): from the last "." of the basename to its end; empty when
\* there is no "." or the only "." starts the basename, or the basename is ".."
PathExtname(p) ==
  LET b == PathBasename(p)
      i == LastDot(b)
  IN IF i <= 1 \/ b = DotDot THEN <<>> ELSE SubSeq(b, i, Len(b))

----------------------------------------------------------------------------
(* security.js: path predicates *)

\* the traversal check without its raw-segment loop
hasPathTraversal_noSegmentCheck(inputPath) ==
  LET base == CWD
      resolvedPath == PathResolveFrom(base, inputPath)
      relativePath == PathRelative(base, resolvedPath)
  IN StartsWith(relativePath, DotDot) \/ PathIsAbsolute(relativePath)

hasPathTraversal(inputPath) ==
  LET base == CWD
      resolvedPath == PathResolveFrom(base, inputPath)
      relativePath == PathRelative(base, resolvedPath)
      segments == Split(inputPath, {SLASH, BSLASH})
  IN IF StartsWith(relativePath, DotDot) \/ PathIsAbsolute(relativePath)
     THEN TRUE
     ELSE \E i \in 1..Len(segments) : segments[i] = DotDot

isWithinAllowedDirectory(filePath, allowedDirs) ==
  IF Len(allowedDirs) = 0 THEN TRUE
  ELSE LET absoluteFilePath == PathResolve(filePath) IN
       \E i \in 1..Len(allowedDirs) :
         LET absoluteDir == PathResolve(allowedDirs[i])
             relativePath == PathRelative(absoluteDir, absoluteFilePath)
         IN ~StartsWith(relativePath, DotDot) /\ ~PathIsAbsolute(relativePath)

----------------------------------------------------------------------------
(* micromatch.isMatch(str, patterns, options), on tokens.  A pattern is a   *)
(* string with the extra tokens "*" (any run of tokens inside a segment)   *)
(* and "**" (as a whole segment: any number of segments).                  *)

STAR == "*"
GLOBSTAR == "**"

\* case folding of a token (options.nocase)
Lower(t) ==
  CASE t = "ENV" -> "env"
    [] t = "PEM" -> "pem"
    [] t = "Credentials" -> "credentials"
    [] t = "PNG" -> "png"
    [] t = "TS" -> "ts"
    [] OTHER -> t

Fold(t, opts) == IF opts.nocase THEN Lower(t) ELSE t

RECURSIVE SegMatchFrom(_, _, _, _, _)
SegMatchFrom(p, s, i, j, opts) ==
  IF i > Len(p) THEN j > Len(s)
  ELSE IF p[i] = STAR
       THEN /\ ~(i = 1 /\ ~opts.dot /\ Len(s) > 0 /\ s[1] = DOT)
            /\ \E k \in j..(Len(s) + 1) : SegMatchFrom(p, s, i + 1, k, opts)
       ELSE /\ j <= Len(s)
            /\ Fold(p[i], opts) = Fold(s[j], opts)
            /\ SegMatchFrom(p, s, i + 1, j + 1, opts)

\* one pattern segment against one path segment
SegMatch(p, s, opts) == Len(s) > 0 /\ SegMatchFrom(p, s, 1, 1, opts)

\* a path segment the globstar may step over
GlobstarMayCross(s, opts) ==
  IF opts.dot THEN s # <<DOT>> /\ s # DotDot
  ELSE ~(Len(s) > 0 /\ s[1] = DOT)

RECURSIVE SegsMatchFrom(_, _, _, _, _)
SegsMatchFrom(ps, ss, i, j, opts) ==
  IF i > Len(ps) THEN j > Len(ss)
  ELSE IF ps[i] = <<GLOBSTAR>>
       THEN \/ SegsMatchFrom(ps, ss, i + 1, j, opts)
            \/ /\ j <= Len(ss)
               /\ GlobstarMayCross(ss[j], opts)
               /\ SegsMatchFrom(ps, ss, i, j + 1, opts)
       ELSE /\ j <= Len(ss)
            /\ SegMatch(ps[i], ss[j], opts)
            /\ SegsMatchFrom(ps, ss, i + 1, j + 1, opts)

\* picomatch(pattern, options)(str)
GlobMatch(str, pattern, opts) ==
  /\ Len(str) > 0
  /\ SegsMatchFrom(Split(pattern, {SLASH}), Split(str, {SLASH}), 1, 1, opts)

\* micromatch.isMatch(str, patterns, options)
IsMatch(str, patterns, opts) ==
  \E i \in 1..Len(patterns) : GlobMatch(str, patterns[i], opts)

----------------------------------------------------------------------------
(* security.js: constants and configuration *)

DEFAULT_SENSITIVE_PATTERNS == <<
  <<DOT, "env">>,
  <<DOT, "env", DOT, STAR>>,
  <<DOT, "env", DOT, "local">>,
  <<DOT, "env", DOT, "development">>,
  <<DOT, "env", DOT, "production">>,
  <<GLOBSTAR, SLASH, DOT, "env">>,
  <<GLOBSTAR, SLASH, DOT, "env", DOT, STAR>>,
  <<DOT, "ssh", SLASH, GLOBSTAR>>,
  <<GLOBSTAR, SLASH, DOT, "ssh", SLASH, GLOBSTAR>>,
  <<STAR, DOT, "pem">>,
  <<STAR, DOT, "key">>,
  <<STAR, DOT, "pfx">>,
  <<STAR, DOT, "p12">>,
  <<GLOBSTAR, SLASH, "id_rsa">>,
  <<GLOBSTAR, SLASH, "id_rsa", DOT, STAR>>,
  <<GLOBSTAR, SLASH, "id_ed25519">>,
  <<GLOBSTAR, SLASH, "id_ed25519", DOT, STAR>>,
  <<GLOBSTAR, SLASH, "id_dsa">>,
  <<GLOBSTAR, SLASH, "id_dsa", DOT, STAR>>,
  <<GLOBSTAR, SLASH, "credentials", STAR>>,
  <<GLOBSTAR, SLASH, "secrets", STAR>>,
  <<GLOBSTAR, SLASH, "secret", DOT, STAR>>,
  <<GLOBSTAR, SLASH, STAR, "password", STAR>>,
  <<GLOBSTAR, SLASH, STAR, "token", STAR>>,
  <<GLOBSTAR, SLASH, DOT, "git", SLASH, "config">>,
  <<GLOBSTAR, SLASH, DOT, "gitconfig">>,
  <<STAR, DOT, "sqlite">>,
  <<STAR, DOT, "sqlite3">>,
  <<STAR, DOT, "db">>,
  <<GLOBSTAR, SLASH, DOT, "bash_history">>,
  <<GLOBSTAR, SLASH, DOT, "zsh_history">>,
  <<GLOBSTAR, SLASH, DOT, "node_repl_history">>,
  <<GLOBSTAR, SLASH, DOT, "aws", SLASH, GLOBSTAR>>,
  <<GLOBSTAR, SLASH, DOT, "azure", SLASH, GLOBSTAR>>,
  <<GLOBSTAR, SLASH, DOT, "gcloud", SLASH, GLOBSTAR>>,
  <<GLOBSTAR, SLASH, "docker-compose", STAR, DOT, "yml">>,
  <<GLOBSTAR, SLASH, "docker-compose", STAR, DOT, "yaml">>
>>

DEFAULT_MAX_FILE_SIZE == 1048576
DEFAULT_MAX_FILES == 500

DEFAULT_SECURITY_CONFIG ==
  [ allowedDirectories |-> <<>>,
    sensitivePatterns  |-> DEFAULT_SENSITIVE_PATTERNS,
    maxFileSize        |-> DEFAULT_MAX_FILE_SIZE,
    maxFiles           |-> DEFAULT_MAX_FILES,
    allowSymlinks      |-> FALSE ]

\* An optional property of a caller's object: absent (or undefined), or a value.
None == [has |-> FALSE]
Some(v) == [has |-> TRUE, v |-> v]
OrElse(opt, d) == IF opt.has THEN opt.v ELSE d

ConfigFields == {"allowedDirectories", "sensitivePatterns", "maxFileSize", "maxFiles", "allowSymlinks"}

\* the config argument left out (or {}): every property absent
NoConfig == [f \in ConfigFields |-> None]

\* { ...DEFAULT_SECURITY_CONFIG, ...config }
SpreadConfig(config) ==
  [f \in ConfigFields |-> OrElse(config[f], DEFAULT_SECURITY_CONFIG[f])]

mergeSecurityConfig(userConfig) ==
  [SpreadConfig(userConfig) EXCEPT
     !.sensitivePatterns = DEFAULT_SENSITIVE_PATTERNS \o OrElse(userConfig.sensitivePatterns, <<>>)]

----------------------------------------------------------------------------
(* security.js: isSensitiveFile *)

\* the check with the basename match left out
isSensitiveFile_noBasename(filePath, patterns) ==
  IsMatch(ReplaceBackslashes(filePath), patterns, [dot |-> TRUE, nocase |-> TRUE])

isSensitiveFile(filePath, patterns) ==
  LET normalizedPath == ReplaceBackslashes(filePath)
      fileName == PathBasename(normalizedPath)
      isMatch == IsMatch(normalizedPath, patterns, [dot |-> TRUE, nocase |-> TRUE])
      fileNameMatch == IsMatch(fileName, patterns, [dot |-> TRUE, nocase |-> TRUE])
  IN isMatch \/ fileNameMatch


----------------------------------------------------------------------------
(* The filesystem as fs/promises sees it.  An entry is a regular file, a   *)
(* directory, a symbolic link (to `target`), an entry that cannot be       *)
(* reached (EACCES on every lookup), an entry whose lookups fail with an   *)
(* I/O error, or nothing.  `read` is what reading a regular file's content *)
(* gives: "" (success) or an error code.                                   *)

Entry(kind, size, read, target) == [kind |-> kind, size |-> size, read |-> read, target |-> target]
File(size) == Entry("file", size, "", <<>>)
Dir == Entry("dir", 4096, "EISDIR", <<>>)
FileFailing(size, code) == Entry("file", size, code, <<>>)
Symlink(target) == Entry("symlink", 0, "", target)
NoAccess == Entry("noaccess", 0, "EACCES", <<>>)
Broken == Entry("broken", 0, "EIO", <<>>)
Absent == Entry("absent", 0, "ENOENT", <<>>)

Lookup(fsys, abs) == IF abs \in DOMAIN fsys THEN fsys[abs] ELSE Absent

\* the entry a lookup that follows links ends at
Follow(fsys, abs) ==
  LET e == Lookup(fsys, abs) IN
  IF e.kind = "symlink" THEN Lookup(fsys, e.target) ELSE e

LookupError(e) ==
  CASE e.kind = "absent" -> "ENOENT"
    [] e.kind = "noaccess" -> "EACCES"
    [] e.kind = "broken" -> "EIO"
    [] OTHER -> ""

\* the entry the path p names, links not followed; the operating system
\* resolves a relative path from the working directory, and the empty path
\* names nothing
Named(fsys, p) == IF p = <<>> THEN Absent ELSE Lookup(fsys, PathResolve(p))

\* fs.lstat(p): err = "" on success
Lstat(fsys, p) ==
  LET e == Named(fsys, p) IN
  [err |-> LookupError(e), isSymbolicLink |-> e.kind = "symlink",
   isDirectory |-> e.kind = "dir", size |-> e.size]

\* fs.stat(p)
Stat(fsys, p) ==
  LET e == IF p = <<>> THEN Absent ELSE Follow(fsys, PathResolve(p)) IN
  [err |-> LookupError(e), isSymbolicLink |-> FALSE,
   isDirectory |-> e.kind = "dir", size |-> e.size]

\* fs.readFile(p, 'utf-8'): the error code, "" on success
ReadContent(fsys, p) ==
  LET e == IF p = <<>> THEN Absent ELSE Follow(fsys, PathResolve(p)) IN
  IF LookupError(e) # "" THEN LookupError(e) ELSE e.read

Op(name, p) == [op |-> name, path |-> p]

----------------------------------------------------------------------------
(* security.js: isSymlink, validatePath *)

\* a failed lookup reported as a link
isSymlink_failIsLink(fsys, filePath) ==
  LET stats == Lstat(fsys, filePath) IN
  IF stats.err # "" THEN TRUE ELSE stats.isSymbolicLink

isSymlink(fsys, filePath) ==
  LET stats == Lstat(fsys, filePath) IN
  IF stats.err # "" THEN FALSE ELSE stats.isSymbolicLink

Accept(ops) == [code |-> "", ops |-> ops]
Reject(code, ops) == [code |-> code, ops |-> ops]

\* the sensitive-file check made before the traversal check
validatePath_sensitiveFirst(inputPath, config, fsys) ==
  LET mergedConfig == SpreadConfig(config) IN
  IF isSensitiveFile(inputPath, mergedConfig.sensitivePatterns)
  THEN Reject("SENSITIVE_FILE", <<>>)
  ELSE IF hasPathTraversal(inputPath)
  THEN Reject("PATH_TRAVERSAL", <<>>)
  ELSE IF ~isWithinAllowedDirectory(inputPath, mergedConfig.allowedDirectories)
  THEN Reject("ACCESS_DENIED", <<>>)
  ELSE IF ~mergedConfig.allowSymlinks
  THEN IF isSymlink(fsys, inputPath)
       THEN Reject("SYMLINK_DETECTED", <<Op("lstat", inputPath)>>)
       ELSE Accept(<<Op("lstat", inputPath)>>)
  ELSE Accept(<<>>)

\* the link status looked up before the other three checks
validatePath_lstatFirst(inputPath, config, fsys) ==
  LET mergedConfig == SpreadConfig(config)
      ops == IF mergedConfig.allowSymlinks THEN <<>> ELSE <<Op("lstat", inputPath)>> IN
  IF hasPathTraversal(inputPath)
  THEN Reject("PATH_TRAVERSAL", ops)
  ELSE IF isSensitiveFile(inputPath, mergedConfig.sensitivePatterns)
  THEN Reject("SENSITIVE_FILE", ops)
  ELSE IF ~isWithinAllowedDirectory(inputPath, mergedConfig.allowedDirectories)
  THEN Reject("ACCESS_DENIED", ops)
  ELSE IF ~mergedConfig.allowSymlinks /\ isSymlink(fsys, inputPath)
  THEN Reject("SYMLINK_DETECTED", ops)
  ELSE Accept(ops)

\* a path inside a listed directory exempt from the traversal check
validatePath_allowListWidens(inputPath, config, fsys) ==
  LET mergedConfig == SpreadConfig(config) IN
  IF /\ hasPathTraversal(inputPath)
     /\ ~(/\ mergedConfig.allowedDirectories # <<>>
          /\ isWithinAllowedDirectory(inputPath, mergedConfig.allowedDirectories))
  THEN Reject("PATH_TRAVERSAL", <<>>)
  ELSE IF isSensitiveFile(inputPath, mergedConfig.sensitivePatterns)
  THEN Reject("SENSITIVE_FILE", <<>>)
  ELSE IF ~isWithinAllowedDirectory(inputPath, mergedConfig.allowedDirectories)
  THEN Reject("ACCESS_DENIED", <<>>)
  ELSE IF ~mergedConfig.allowSymlinks
  THEN IF isSymlink(fsys, inputPath)
       THEN Reject("SYMLINK_DETECTED", <<Op("lstat", inputPath)>>)
       ELSE Accept(<<Op("lstat", inputPath)>>)
  ELSE Accept(<<>>)

\* validatePath(inputPath, config): the code it rejects with ("" when it
\* accepts) and the filesystem operations it issues
validatePath(inputPath, config, fsys) ==
  LET mergedConfig == SpreadConfig(config) IN
  IF hasPathTraversal(inputPath)
  THEN Reject("PATH_TRAVERSAL", <<>>)
  ELSE IF isSensitiveFile(inputPath, mergedConfig.sensitivePatterns)
  THEN Reject("SENSITIVE_FILE", <<>>)
  ELSE IF ~isWithinAllowedDirectory(inputPath, mergedConfig.allowedDirectories)
  THEN Reject("ACCESS_DENIED", <<>>)
  ELSE IF ~mergedConfig.allowSymlinks
  THEN IF isSymlink(fsys, inputPath)
       THEN Reject("SYMLINK_DETECTED", <<Op("lstat", inputPath)>>)
       ELSE Accept(<<Op("lstat", inputPath)>>)
  ELSE Accept(<<>>)

----------------------------------------------------------------------------
(* Calls and their outcomes *)

NoOptions == [include |-> None, exclude |-> None, maxFiles |-> None, securityConfig |-> NoConfig]

Call(op, p, config) ==
  [op |-> op, path |-> p, paths |-> <<>>, config |-> config, options |-> NoOptions]

Pending == [kind |-> "pending", val |-> FALSE, code |-> "", path |-> <<>>, cause |-> "", files |-> <<>>]
Returned(b) == [Pending EXCEPT !.kind = "value", !.val = b]
Resolved == [Pending EXCEPT !.kind = "value"]
SecurityError(code, p) == [Pending EXCEPT !.kind = "SecurityError", !.code = code, !.path = p]

EmptyFs == <<>>

InitCall(calls, fss) ==
  /\ call \in calls
  /\ fs \in fss
  /\ phase = "call"
  /\ tasks = <<>>
  /\ errors = <<>>
  /\ ioLog = <<>>
  /\ outcome = Pending

CallHasPathTraversal ==
  /\ phase = "call" /\ call.op = "hasPathTraversal"
  /\ outcome' = Returned(hasPathTraversal(call.path))
  /\ phase' = "done"
  /\ UNCHANGED <<call, fs, tasks, errors, ioLog>>

CallIsWithinAllowedDirectory ==
  /\ phase = "call" /\ call.op = "isWithinAllowedDirectory"
  /\ outcome' = Returned(isWithinAllowedDirectory(call.path, call.config.allowedDirectories.v))
  /\ phase' = "done"
  /\ UNCHANGED <<call, fs, tasks, errors, ioLog>>

\* patterns left out: the parameter's default, DEFAULT_SENSITIVE_PATTERNS
CallIsSensitiveFile ==
  /\ phase = "call" /\ call.op = "isSensitiveFile"
  /\ outcome' = Returned(isSensitiveFile(call.path,
                           OrElse(call.config.sensitivePatterns, DEFAULT_SENSITIVE_PATTERNS)))
  /\ phase' = "done"
  /\ UNCHANGED <<call, fs, tasks, errors, ioLog>>

CallValidatePath ==
  /\ phase = "call" /\ call.op = "validatePath"
  /\ LET r == validatePath(call.path, call.config, fs) IN
       /\ outcome' = IF r.code = "" THEN Resolved ELSE SecurityError(r.code, call.path)
       /\ ioLog' = ioLog \o r.ops
  /\ phase' = "done"
  /\ UNCHANGED <<call, fs, tasks, errors>>

----------------------------------------------------------------------------
(* SpecTraversal: hasPathTraversal and validatePath (default config) on     *)
(* every string of at most MaxLen tokens over TraversalAlphabet             *)

TraversalAlphabet == {SLASH, BSLASH, DOT, "a"}
TraversalPaths == StringsUpTo(TraversalAlphabet, MaxLen)

\* the filesystems of SpecTraversal: the input names nothing, a file or a link
TraversalFs(p) ==
  {EmptyFs, PathResolve(p) :> File(1), PathResolve(p) :> Symlink(<<SLASH, "t">>)}

InitTraversal ==
  /\ call \in {Call(op, p, NoConfig) : op \in {"hasPathTraversal", "validatePath"}, p \in TraversalPaths}
  /\ fs \in IF call.op = "validatePath" THEN TraversalFs(call.path) ELSE {EmptyFs}
  /\ phase = "call" /\ outcome = Pending
  /\ tasks = <<>> /\ errors = <<>> /\ ioLog = <<>>

NextTraversal == CallHasPathTraversal \/ CallValidatePath

SpecTraversal == InitTraversal /\ [][NextTraversal]_vars


\* the relative path from the working directory to the resolved target
RelativeFromCwd(p) == PathRelative(CWD, PathResolveFrom(CWD, p))

\* some raw segment of p (split on "/" and "\") is exactly ".."
HasParentSegment(p) ==
  LET segments == Split(p, {SLASH, BSLASH}) IN
  \E i \in 1..Len(segments) : segments[i] = DotDot

\* segment sequence a is a prefix of segment sequence b
IsSegPrefix(a, b) == Len(a) <= Len(b) /\ SubSeq(b, 1, Len(a)) = a

\* p resolves to the directory d or to something below it
ResolvesInside(p, d) == IsSegPrefix(AbsSegs(PathResolve(d)), AbsSegs(PathResolve(p)))

\* C2: validatePath rejects with PATH_TRAVERSAL every path whose relative path
\* from the working directory starts with ".." or is absolute, and every path
\* with a raw segment equal to "..", even one that resolves inside the
\* working directory.
C2_TraversalRejected ==
  (/\ phase = "done" /\ call.op = "validatePath"
   /\ \/ StartsWith(RelativeFromCwd(call.path), DotDot)
      \/ PathIsAbsolute(RelativeFromCwd(call.path))
      \/ HasParentSegment(call.path))
  => outcome = SecurityError("PATH_TRAVERSAL", call.path)

\* a path with a ".." segment that resolves inside the working directory was rejected
C2_Witness ==
  /\ phase = "done" /\ call.op = "validatePath"
  /\ HasParentSegment(call.path)
  /\ ResolvesInside(call.path, CWD)
  /\ ~StartsWith(RelativeFromCwd(call.path), DotDot)
  /\ outcome = SecurityError("PATH_TRAVERSAL", call.path)

\* C3: hasPathTraversal is false for every path that resolves inside the base
\* directory and has no segment equal to "..", wherever ".." occurs inside a
\* segment (middle, end or start of a name).
C3_LegitimateNeverFlagged ==
  (/\ phase = "done" /\ call.op = "hasPathTraversal"
   /\ ResolvesInside(call.path, CWD)
   /\ ~HasParentSegment(call.path))
  => outcome.val = FALSE


----------------------------------------------------------------------------
(* SpecAllowed: isWithinAllowedDirectory on every string of at most MaxLen  *)
(* tokens over AllowedAlphabet, against allow-lists of 0, 1 and 2 entries   *)

AllowedAlphabet == {SLASH, DOT, "a", "b"}
AllowedPaths == StringsUpTo(AllowedAlphabet, MaxLen)

\* longest allowed-directory string (in tokens)
MaxDirLen == 2

AllowedDirStrings == StringsUpTo({SLASH, DOT, "a"}, MaxDirLen) \cup {<<SLASH, "w", SLASH, "a">>}

AllowLists ==
  {<<>>} \cup {<<d>> : d \in AllowedDirStrings}
         \cup {<<d, e>> : d, e \in {<<"a">>, <<"b">>, <<"a", SLASH, "b">>}}

InitAllowed ==
  InitCall({[Call("isWithinAllowedDirectory", p, NoConfig)
               EXCEPT !.config.allowedDirectories = Some(dirs)] :
              p \in AllowedPaths, dirs \in AllowLists},
           {EmptyFs})

NextAllowed == CallIsWithinAllowedDirectory

SpecAllowed == InitAllowed /\ [][NextAllowed]_vars

\* p resolves to one of the directories of dirs or to something below one
ContainedInSome(p, dirs) == \E i \in 1..Len(dirs) : ResolvesInside(p, dirs[i])

\* C4: isWithinAllowedDirectory is a containment check: with a non-empty list
\* it is true exactly when the resolved path equals or lies below a resolved
\* allowed directory; with an empty list it is true for every path.
C4_Containment ==
  (phase = "done" /\ call.op = "isWithinAllowedDirectory")
  => LET dirs == call.config.allowedDirectories.v IN
     outcome.val = (Len(dirs) = 0 \/ ContainedInSome(call.path, dirs))


----------------------------------------------------------------------------
(* SpecSensitive: isSensitiveFile on every string of at most MaxNameLen     *)
(* tokens over SensitiveAlphabet and on the documented examples, with the  *)
(* default patterns and with lists of the caller's                         *)

SensitiveAlphabet == {SLASH, BSLASH, DOT, "env", "ENV", "pem", "x"}

Env == <<DOT, "env">>
ConfigCredentialsJson == <<"config", SLASH, "credentials", DOT, "json">>
SrcIndexTs == <<"src", SLASH, "index", DOT, "ts">>

SensitiveExamples ==
  { Env, ConfigCredentialsJson, SrcIndexTs,
    <<DOT, SLASH>> \o SrcIndexTs,
    <<DOT, SLASH>> \o ConfigCredentialsJson,
    <<"a", SLASH, "b", SLASH, "c", SLASH, "x", DOT, "pem">>,
    <<"a", BSLASH, "b", BSLASH, DOT, "ENV">>,
    <<"Credentials">>,
    <<"my", "password", DOT, "txt">> }

SensitivePaths == StringsUpTo(SensitiveAlphabet, MaxNameLen) \cup SensitiveExamples

PatternLists ==
  { None, Some(<<>>), Some(<< <<STAR, DOT, "x">> >>),
    Some(<< <<"x", SLASH, GLOBSTAR>>, <<GLOBSTAR, SLASH, "ENV">> >>) }

InitSensitive ==
  InitCall({[Call("isSensitiveFile", p, NoConfig) EXCEPT !.config.sensitivePatterns = pats] :
              p \in SensitivePaths, pats \in PatternLists},
           {EmptyFs})

NextSensitive == CallIsSensitiveFile

SpecSensitive == InitSensitive /\ [][NextSensitive]_vars

MatchOptions == [dot |-> TRUE, nocase |-> TRUE]

LowerAll(s) == [i \in 1..Len(s) |-> Lower(s[i])]

EndsWith(s, e) == Len(s) >= Len(e) /\ SubSeq(s, Len(s) - Len(e) + 1, Len(s)) = e

\* the basename of p, lower-cased, is ".env" or ends with ".pem"
BasenameIsEnvOrPem(p) ==
  LET b == LowerAll(PathBasename(ReplaceBackslashes(p))) IN
  b = Env \/ EndsWith(b, <<DOT, "pem">>)

\* C5: isSensitiveFile(p, patterns) is true exactly when the slash-normalized
\* path or the bare basename matches a pattern (case-insensitively, dot-files
\* included); a basename matching '*.pem' or '.env' is sensitive at any depth;
\* '.env' and 'config/credentials.json' are sensitive, 'src/index.ts' is not.
C5_SensitiveExactly ==
  (phase = "done" /\ call.op = "isSensitiveFile")
  => LET pats == OrElse(call.config.sensitivePatterns, DEFAULT_SENSITIVE_PATTERNS)
         norm == ReplaceBackslashes(call.path)
     IN /\ outcome.val = ( \/ IsMatch(norm, pats, MatchOptions)
                           \/ IsMatch(PathBasename(norm), pats, MatchOptions) )
        /\ (~call.config.sensitivePatterns.has /\ BasenameIsEnvOrPem(call.path))
             => outcome.val
        /\ (~call.config.sensitivePatterns.has /\ call.path \in {Env, ConfigCredentialsJson})
             => outcome.val
        /\ (~call.config.sensitivePatterns.has /\ call.path = SrcIndexTs)
             => ~outcome.val

\* a file below the top level was found sensitive by its basename alone
C5_Witness ==
  /\ phase = "done" /\ call.op = "isSensitiveFile"
  /\ ~call.config.sensitivePatterns.has
  /\ Len(SelectSeq(Split(call.path, {SLASH}), LAMBDA seg : seg # <<>>)) >= 2
  /\ BasenameIsEnvOrPem(call.path)
  /\ ~IsMatch(ReplaceBackslashes(call.path), DEFAULT_SENSITIVE_PATTERNS, MatchOptions)
  /\ outcome.val


----------------------------------------------------------------------------
(* SpecValidate: validatePath on paths that violate none, one or several    *)
(* of its checks, under every combination of the caller's config           *)
(* properties, the path naming a file, a link, nothing, or an entry whose  *)
(* status cannot be read                                                   *)

ValidatePaths ==
  { SrcIndexTs,
    <<"lib", SLASH, "a", DOT, "ts">>,
    Env,
    <<"lib", SLASH>> \o Env,
    <<"src", SLASH, "x", DOT, "pem">>,
    DotDot \o <<SLASH, "x">>,
    DotDot \o <<SLASH>> \o Env,
    <<SLASH, "etc", SLASH, "x", DOT, "pem">>,
    <<"src", SLASH, "a", SLASH>> \o DotDot \o <<SLASH, "x", DOT, "pem">>,
    <<"src", BSLASH>> \o DotDot \o <<BSLASH, "x">>,
    <<"lib", SLASH, "v">> \o DotDot \o <<"lib", DOT, "js">>,
    <<SLASH, "etc", SLASH, "x">>,
    <<>> }

ValidateConfigs ==
  { [NoConfig EXCEPT !.sensitivePatterns = pats, !.allowedDirectories = dirs, !.allowSymlinks = links] :
      pats \in {None, Some(<<>>), Some(<< <<STAR, DOT, "ts">> >>)},
      dirs \in {None, Some(<<>>), Some(<< <<"src">> >>), Some(<< <<SLASH, "etc">>, DotDot >>)},
      links \in {None, Some(FALSE), Some(TRUE)} }

LinkTarget == <<SLASH, "w", SLASH, "target">>

\* the filesystems of SpecValidate
ValidateFs(p) ==
  {EmptyFs} \cup
  {(PathResolve(p) :> e) @@ (LinkTarget :> File(1)) : e \in {File(1), Symlink(LinkTarget), NoAccess, Broken, Dir}}

InitValidate ==
  /\ call \in {Call("validatePath", p, c) : p \in ValidatePaths, c \in ValidateConfigs}
  /\ fs \in ValidateFs(call.path)
  /\ phase = "call" /\ outcome = Pending
  /\ tasks = <<>> /\ errors = <<>> /\ ioLog = <<>>

NextValidate == CallValidatePath

SpecValidate == InitValidate /\ [][NextValidate]_vars

\* the four violations a path can commit under the config as validatePath reads it
ViolatesTraversal(p) == hasPathTraversal(p)
ViolatesSensitive(p, config) == isSensitiveFile(p, SpreadConfig(config).sensitivePatterns)
ViolatesAllowList(p, config) == ~isWithinAllowedDirectory(p, SpreadConfig(config).allowedDirectories)
ViolatesSymlink(p, config, fsys) ==
  ~SpreadConfig(config).allowSymlinks /\ Named(fsys, p).kind = "symlink"

\* C6: whatever sensitivePatterns the caller's config holds, a path matching a
\* default sensitive pattern (and not already rejected as a traversal) is
\* rejected with SENSITIVE_FILE.
C6_DefaultsNeverDropped ==
  (/\ phase = "done" /\ call.op = "validatePath"
   /\ ~ViolatesTraversal(call.path)
   /\ isSensitiveFile(call.path, DEFAULT_SENSITIVE_PATTERNS))
  => outcome = SecurityError("SENSITIVE_FILE", call.path)

\* C7: validatePath stops at the first failing check in the order traversal,
\* sensitive-file, allow-list, symlink: a rejection carries the code of the
\* earliest violated check, and a path violating none is accepted.
C7_FirstViolationWins ==
  (phase = "done" /\ call.op = "validatePath")
  => outcome =
       IF ViolatesTraversal(call.path) THEN SecurityError("PATH_TRAVERSAL", call.path)
       ELSE IF ViolatesSensitive(call.path, call.config) THEN SecurityError("SENSITIVE_FILE", call.path)
       ELSE IF ViolatesAllowList(call.path, call.config) THEN SecurityError("ACCESS_DENIED", call.path)
       ELSE IF ViolatesSymlink(call.path, call.config, fs) THEN SecurityError("SYMLINK_DETECTED", call.path)
       ELSE Resolved

\* a path violating all four checks was rejected as a traversal
C7_Witness ==
  /\ phase = "done" /\ call.op = "validatePath"
  /\ ViolatesTraversal(call.path)
  /\ ViolatesSensitive(call.path, call.config)
  /\ ViolatesAllowList(call.path, call.config)
  /\ ViolatesSymlink(call.path, call.config, fs)
  /\ outcome.code = "PATH_TRAVERSAL"

PassesFirstThree(p, config) ==
  ~ViolatesTraversal(p) /\ ~ViolatesSensitive(p, config) /\ ~ViolatesAllowList(p, config)

\* C8: for a path that passed the first three checks: with allowSymlinks false
\* a symbolic link is rejected with SYMLINK_DETECTED and a path that does not
\* exist or whose link status cannot be read is accepted; with allowSymlinks
\* true the path is accepted and no link status is looked up.
C8_SymlinkCheck ==
  (phase = "done" /\ call.op = "validatePath" /\ PassesFirstThree(call.path, call.config))
  => LET kind == Named(fs, call.path).kind IN
     IF OrElse(call.config.allowSymlinks, FALSE)
     THEN outcome = Resolved /\ ioLog = <<>>
     ELSE /\ kind = "symlink" => outcome = SecurityError("SYMLINK_DETECTED", call.path)
          /\ kind \in {"absent", "noaccess", "broken"} => outcome = Resolved
          /\ ioLog = <<Op("lstat", call.path)>>

\* a path whose link status cannot be read was accepted
C8_Witness ==
  /\ phase = "done" /\ call.op = "validatePath" /\ PassesFirstThree(call.path, call.config)
  /\ ~OrElse(call.config.allowSymlinks, FALSE)
  /\ Named(fs, call.path).kind = "noaccess"
  /\ outcome = Resolved


----------------------------------------------------------------------------
(* file-reader.js: constants, errors, isBinaryFile *)

\* BINARY_EXTENSIONS, each without its leading "."
BINARY_EXTENSIONS ==
  { "png", "jpg", "jpeg", "gif", "webp", "ico", "bmp", "svg", "tiff", "avif",
    "mp3", "wav", "ogg", "flac", "aac", "m4a", "wma",
    "mp4", "avi", "mov", "mkv", "wmv", "flv", "webm", "m4v",
    "zip", "tar", "gz", "rar", "7z", "bz2", "xz",
    "exe", "dll", "so", "dylib", "bin", "app", "msi",
    "pdf", "doc", "docx", "xls", "xlsx", "ppt", "pptx", "odt", "ods", "odp",
    "woff", "woff2", "ttf", "eot", "otf",
    "db", "sqlite", "sqlite3", "mdb",
    "class", "jar", "pyc", "pyo", "o", "obj", "a", "lib",
    "icns", "cur" }

\* the extension compared without lower-casing it
isBinaryFile_caseSensitive(filePath) ==
  LET ext == PathExtname(filePath) IN
  Len(ext) = 2 /\ ext[1] = DOT /\ ext[2] \in BINARY_EXTENSIONS

\* isBinaryFile(filePath): BINARY_EXTENSIONS.includes(path.extname(filePath).toLowerCase())
isBinaryFile(filePath) ==
  LET ext == LowerAll(PathExtname(filePath)) IN
  Len(ext) = 2 /\ ext[1] = DOT /\ ext[2] \in BINARY_EXTENSIONS

\* DEFAULT_EXCLUDE_PATTERNS
DEFAULT_EXCLUDE_PATTERNS == <<
  <<"node_modules", SLASH, GLOBSTAR>>,
  <<"vendor", SLASH, GLOBSTAR>>,
  <<"bower_components", SLASH, GLOBSTAR>>,
  <<"dist", SLASH, GLOBSTAR>>,
  <<"build", SLASH, GLOBSTAR>>,
  <<"out", SLASH, GLOBSTAR>>,
  <<DOT, "next", SLASH, GLOBSTAR>>,
  <<DOT, "nuxt", SLASH, GLOBSTAR>>,
  <<DOT, "output", SLASH, GLOBSTAR>>,
  <<"coverage", SLASH, GLOBSTAR>>,
  <<DOT, "nyc_output", SLASH, GLOBSTAR>>,
  <<DOT, "cache", SLASH, GLOBSTAR>>,
  <<DOT, "parcel-cache", SLASH, GLOBSTAR>>,
  <<DOT, "turbo", SLASH, GLOBSTAR>>,
  <<STAR, DOT, "lock">>,
  <<"package-lock", DOT, "json">>,
  <<"yarn", DOT, "lock">>,
  <<"pnpm-lock", DOT, "yaml">>,
  <<STAR, DOT, "min", DOT, "js">>,
  <<STAR, DOT, "min", DOT, "css">>,
  <<STAR, DOT, "bundle", DOT, "js">>,
  <<STAR, DOT, "chunk", DOT, "js">>,
  <<STAR, DOT, "map">>,
  <<STAR, DOT, "js", DOT, "map">>,
  <<STAR, DOT, "css", DOT, "map">>,
  <<DOT, "git", SLASH, GLOBSTAR>>,
  <<DOT, "svn", SLASH, GLOBSTAR>>,
  <<DOT, "hg", SLASH, GLOBSTAR>>,
  <<DOT, "idea", SLASH, GLOBSTAR>>,
  <<DOT, "vscode", SLASH, GLOBSTAR>>,
  <<STAR, DOT, "code-workspace">>,
  <<STAR, DOT, "log">>,
  <<"logs", SLASH, GLOBSTAR>>,
  <<"tmp", SLASH, GLOBSTAR>>,
  <<"temp", SLASH, GLOBSTAR>>,
  <<DOT, "tmp", SLASH, GLOBSTAR>>
>>

\* BINARY_EXTENSIONS.map(ext => `**/*${ext}`): some derived pattern matches rel
MatchesBinaryExclude(rel, opts) ==
  \E ext \in BINARY_EXTENSIONS : GlobMatch(rel, <<GLOBSTAR, SLASH, STAR, DOT, ext>>, opts)

\* new FileReadError(message, filePath, cause); `code` names the message
FileReadError(code, p, cause) ==
  [Pending EXCEPT !.kind = "FileReadError", !.code = code, !.path = p, !.cause = cause]

\* an error of the filesystem itself, not wrapped
RawError(errno) == [Pending EXCEPT !.kind = "RawError", !.code = errno, !.cause = errno]

\* the catch block with its three errno branches left out
WrapFsError_generic(errno, filePath) == FileReadError("READ_FAILED", filePath, errno)

\* the catch block of readFile, for an error of the filesystem; the `code` of
\* a FileReadError stands for its message template, the class has no code field
WrapFsError(errno, filePath) ==
  CASE errno = "ENOENT" -> FileReadError("NOT_FOUND", filePath, errno)
    [] errno = "EACCES" -> FileReadError("ACCESS_DENIED", filePath, errno)
    [] errno = "EISDIR" -> FileReadError("IS_DIRECTORY", filePath, errno)
    [] OTHER -> FileReadError("READ_FAILED", filePath, errno)

\* what readFile returns
FileContent(filePath, size) ==
  [path |-> filePath, absolutePath |-> ReplaceBackslashes(PathResolve(filePath)), size |-> size]

Value(files) == [Pending EXCEPT !.kind = "value", !.files = files]

----------------------------------------------------------------------------
(* security.js: validateFileSize, validateFileCount *)

\* the ceiling enforced with >= in place of >
validateFileSize_atLeast(fsys, filePath, maxSize) ==
  LET stats == Stat(fsys, filePath) IN
  IF stats.err = "" /\ stats.size >= maxSize
  THEN Reject("SIZE_EXCEEDED", <<Op("stat", filePath)>>)
  ELSE Accept(<<Op("stat", filePath)>>)

\* validateFileSize(filePath, maxSize): getFileSize stats the file again; a
\* failure of that stat is swallowed
validateFileSize(fsys, filePath, maxSize) ==
  LET stats == Stat(fsys, filePath) IN
  IF stats.err = "" /\ stats.size > maxSize
  THEN Reject("SIZE_EXCEEDED", <<Op("stat", filePath)>>)
  ELSE Accept(<<Op("stat", filePath)>>)

\* the count ceiling enforced with >= in place of >
validateFileCount_atLeast(count, maxFiles) == count >= maxFiles

\* validateFileCount(count, maxFiles): TRUE when it throws FILE_LIMIT_EXCEEDED
validateFileCount(count, maxFiles) == count > maxFiles

----------------------------------------------------------------------------
(* file-reader.js: readFile, one step per awaited operation.  A load is a   *)
(* record: the input path, its position, stats.size once known, the error  *)
(* it failed with, and the filesystem operations it has issued.            *)

NewLoad(filePath) ==
  [path |-> filePath, pc |-> "validate", size |-> 0, err |-> Pending, ops |-> <<>>]

SkippedLoad(filePath) == [NewLoad(filePath) EXCEPT !.pc = "skipped"]

\* a failed step tried once more before the load gives up
Fail_retryOnce(t, e, ops) ==
  IF ops # <<>> /\ \A k \in 1..Len(t.ops) : t.ops[k] # ops[Len(ops)]
  THEN [t EXCEPT !.ops = @ \o ops]
  ELSE [t EXCEPT !.pc = "failed", !.err = e, !.ops = @ \o ops]

\* the load ends with the error e, having issued ops in its last step
Fail(t, e, ops) == [t EXCEPT !.pc = "failed", !.err = e, !.ops = @ \o ops]

\* the binary-extension check made before validatePath
readFile_validate_binaryFirst(t, config, fsys) ==
  IF isBinaryFile(t.path)
  THEN Fail(t, FileReadError("BINARY", t.path, ""), <<>>)
  ELSE LET r == validatePath(t.path, config, fsys) IN
       IF r.code # "" THEN Fail(t, SecurityError(r.code, t.path), r.ops)
       ELSE [t EXCEPT !.pc = "stat", !.ops = @ \o r.ops]

\* step 1: await validatePath(filePath, config)
readFile_validate(t, config, fsys) ==
  LET r == validatePath(t.path, config, fsys) IN
  IF r.code # "" THEN Fail(t, SecurityError(r.code, t.path), r.ops)
  ELSE [t EXCEPT !.pc = "stat", !.ops = @ \o r.ops]

\* steps 2-4: the binary check, then await fs.stat(absolutePath)
readFile_stat(t, fsys) ==
  IF isBinaryFile(t.path)
  THEN Fail(t, FileReadError("BINARY", t.path, ""), <<>>)
  ELSE LET absolutePath == PathResolve(t.path)
           stats == Stat(fsys, absolutePath)
       IN IF stats.err # ""
          THEN Fail(t, WrapFsError(stats.err, t.path), <<Op("stat", absolutePath)>>)
          ELSE [t EXCEPT !.pc = "size", !.size = stats.size,
                         !.ops = @ \o <<Op("stat", absolutePath)>>]

\* step 5: await validateFileSize(absolutePath, maxSize)
readFile_size(t, config, fsys) ==
  LET absolutePath == PathResolve(t.path)
      maxSize == OrElse(config.maxFileSize, DEFAULT_MAX_FILE_SIZE)
      r == validateFileSize(fsys, absolutePath, maxSize)
  IN IF r.code # "" THEN Fail(t, SecurityError(r.code, absolutePath), r.ops)
     ELSE [t EXCEPT !.pc = "read", !.ops = @ \o r.ops]

\* steps 6-7: await fs.readFile(absolutePath, 'utf-8'), then the return
readFile_read(t, fsys) ==
  LET absolutePath == PathResolve(t.path)
      errno == ReadContent(fsys, absolutePath)
  IN IF errno # ""
     THEN Fail(t, WrapFsError(errno, t.path), <<Op("readFile", absolutePath)>>)
     ELSE [t EXCEPT !.pc = "done", !.ops = @ \o <<Op("readFile", absolutePath)>>]

----------------------------------------------------------------------------
(* The loader's actions *)

\* the config the per-file loads of the call run under
LoadConfig == IF call.op = "readDirectory" THEN call.options.securityConfig ELSE call.config

\* the load runs inside readFiles' try/catch
InBatch == call.op \in {"readFiles", "readDirectory"}

\* the text of an error's message: its template and the path quoted in it
Message(e) == [code |-> e.code, path |-> e.path]

\* load i has settled: the position of its promise and the path it was for
Settle(i, t) == [op |-> "settled", path |-> t.path, index |-> i]

\* the order in which the loads settle is kept in ioLog
Completion(i, t) ==
  IF t.pc \in {"done", "failed"} THEN Append(ioLog, Settle(i, t)) ELSE ioLog

\* the catch block of the map callback without its errors.push
Advance_dropDiagnostic(i, t) ==
  /\ tasks' = [tasks EXCEPT ![i] = t]
  /\ errors' = errors
  /\ ioLog' = Completion(i, t)
  /\ UNCHANGED <<call, fs, phase, outcome>>

\* load i has moved to t: in readFiles a failure is pushed onto `errors`
\* the catch block storing its diagnostic in place of the array (a lost update)
Advance_lostUpdate(i, t) ==
  /\ tasks' = [tasks EXCEPT ![i] = t]
  /\ errors' = IF InBatch /\ t.pc = "failed"
               THEN <<[path |-> t.path, error |-> Message(t.err)]>>
               ELSE errors
  /\ ioLog' = Completion(i, t)
  /\ UNCHANGED <<call, fs, phase, outcome>>

Advance(i, t) ==
  /\ tasks' = [tasks EXCEPT ![i] = t]
  /\ errors' = IF InBatch /\ t.pc = "failed"
               THEN Append(errors, [path |-> t.path, error |-> Message(t.err)])
               ELSE errors
  /\ ioLog' = Completion(i, t)
  /\ UNCHANGED <<call, fs, phase, outcome>>

LoadValidate(i) ==
  /\ phase = "loading" /\ tasks[i].pc = "validate"
  /\ Advance(i, readFile_validate(tasks[i], LoadConfig, fs))

LoadStat(i) ==
  /\ phase = "loading" /\ tasks[i].pc = "stat"
  /\ Advance(i, readFile_stat(tasks[i], fs))

LoadSize(i) ==
  /\ phase = "loading" /\ tasks[i].pc = "size"
  /\ Advance(i, readFile_size(tasks[i], LoadConfig, fs))

LoadRead(i) ==
  /\ phase = "loading" /\ tasks[i].pc = "read"
  /\ Advance(i, readFile_read(tasks[i], fs))

\* Promise.all taken to wait for loads that fulfilled only
Settled_onlyFulfilled(t) == t.pc = "done"

Settled(t) == t.pc \in {"done", "failed", "skipped"}

\* readFile(filePath, config) is called
ReadFileCall ==
  /\ phase = "call" /\ call.op = "readFile"
  /\ tasks' = <<NewLoad(call.path)>>
  /\ phase' = "loading"
  /\ UNCHANGED <<call, fs, errors, ioLog, outcome>>

\* readFile returns its FileContent or throws the error its load failed with
ReadFileReturn ==
  /\ phase = "loading" /\ call.op = "readFile" /\ Settled(tasks[1])
  /\ outcome' = IF tasks[1].pc = "done"
                THEN Value(<<FileContent(tasks[1].path, tasks[1].size)>>)
                ELSE tasks[1].err
  /\ phase' = "done"
  /\ UNCHANGED <<call, fs, tasks, errors, ioLog>>

----------------------------------------------------------------------------
(* fast-glob: fg(include, {cwd, ignore, onlyFiles: true, dot: false,        *)
(* followSymbolicLinks: false, absolute: false}).  The walk reports        *)
(* regular files only (a link is reported as a link and dropped), matches  *)
(* the include patterns with dot: false and the ignore patterns with       *)
(* dot: true, both case-sensitively, and returns cwd-relative paths.       *)

\* the order in which the walk meets the paths of the filesystem
ScanOrder ==
  << <<SLASH, "w", SLASH, "src", SLASH, "index", DOT, "ts">>,
     <<SLASH, "w", SLASH, "src", SLASH, "big", DOT, "ts">>,
     <<SLASH, "w", SLASH, "src", SLASH, "link", DOT, "ts">>,
     <<SLASH, "w", SLASH, "src", SLASH, "logo", DOT, "png">>,
     <<SLASH, "w", SLASH, "src", SLASH, "icon", DOT, "PNG">>,
     <<SLASH, "w", SLASH, "src", SLASH, DOT, "env">>,
     <<SLASH, "w", SLASH, "lib", SLASH, "a", DOT, "ts">>,
     <<SLASH, "w", SLASH, "lib", SLASH, "locked", DOT, "ts">>,
     <<SLASH, "w", SLASH, "lib", SLASH, "x", DOT, "pem">>,
     <<SLASH, "w", SLASH, "lib", SLASH, "edge", DOT, "ts">>,
     <<SLASH, "w", SLASH, "proj", SLASH, "a", DOT, "ts">>,
     <<SLASH, "w", SLASH, "proj", SLASH, "b", DOT, "js">>,
     <<SLASH, "w", SLASH, "proj", SLASH, "node_modules", SLASH, "c", DOT, "ts">>,
     <<SLASH, "w", SLASH, "proj", SLASH, DOT, "cfg", SLASH, "h", DOT, "ts">>,
     <<SLASH, "w", SLASH, "misc", SLASH, "bad", DOT, "ts">>,
     <<SLASH, "etc", SLASH, "passwd">> >>

FgInclude == [dot |-> FALSE, nocase |-> FALSE]
FgIgnore == [dot |-> TRUE, nocase |-> FALSE]

\* abs is a regular file strictly below absoluteDir
IsFileBelow(fsys, absoluteDir, abs) ==
  /\ Lookup(fsys, abs).kind = "file"
  /\ Len(AbsSegs(absoluteDir)) < Len(AbsSegs(abs))
  /\ IsSegPrefix(AbsSegs(absoluteDir), AbsSegs(abs))

\* abs as a path relative to absoluteDir
RelativeTo(absoluteDir, abs) ==
  LET segs == AbsSegs(abs) IN Join(SubSeq(segs, Len(AbsSegs(absoluteDir)) + 1, Len(segs)), SLASH)

Selected(rel, include, ignore) ==
  /\ IsMatch(rel, include, FgInclude)
  /\ ~IsMatch(rel, ignore, FgIgnore)
  /\ ~MatchesBinaryExclude(rel, FgIgnore)

\* the list fg returns; `ignore` is the exclude list without the derived binary patterns
Fg(fsys, absoluteDir, include, ignore) ==
  LET found == SelectSeq(ScanOrder,
                 LAMBDA abs : /\ IsFileBelow(fsys, absoluteDir, abs)
                              /\ Selected(RelativeTo(absoluteDir, abs), include, ignore))
  IN [i \in 1..Len(found) |-> RelativeTo(absoluteDir, found[i])]

----------------------------------------------------------------------------
(* file-reader.js: readFiles and readDirectory *)

\* the map callback without its isBinaryFile test: every path is handed to readFile
StartLoads_noSkip(filePaths) ==
  [i \in 1..Len(filePaths) |-> NewLoad(filePaths[i])]

\* filePaths.map(async ...): a binary path returns null at once, the others load
StartLoads(filePaths) ==
  [i \in 1..Len(filePaths) |->
     IF isBinaryFile(filePaths[i]) THEN SkippedLoad(filePaths[i]) ELSE NewLoad(filePaths[i])]

\* the results with an entry for each failed load as well
Results_withFailed(ts) ==
  LET kept == SelectSeq(ts, LAMBDA t : t.pc \in {"done", "failed"}) IN
  [i \in 1..Len(kept) |-> FileContent(kept[i].path, kept[i].size)]

\* the results pushed by each load as it completes, not read off Promise.all
Results_completionOrder(ts) ==
  LET order == SelectSeq(ioLog, LAMBDA o : o.op = "settled" /\ ts[o.index].pc = "done") IN
  [k \in 1..Len(order) |-> FileContent(ts[order[k].index].path, ts[order[k].index].size)]

\* the non-null results of Promise.all, in input order
Results(ts) ==
  LET done == SelectSeq(ts, LAMBDA t : t.pc = "done") IN
  [i \in 1..Len(done) |-> FileContent(done[i].path, done[i].size)]

\* readFiles(filePaths, config) is called
ReadFilesCall ==
  /\ phase = "call" /\ call.op = "readFiles"
  /\ tasks' = StartLoads(call.paths)
  /\ phase' = "loading"
  /\ UNCHANGED <<call, fs, errors, ioLog, outcome>>

\* readFiles returns `results`; `errors` is only logged
ReadFilesReturn ==
  /\ phase = "loading" /\ call.op = "readFiles"
  /\ \A i \in 1..Len(tasks) : Settled(tasks[i])
  /\ outcome' = Value(Results(tasks))
  /\ phase' = "done"
  /\ UNCHANGED <<call, fs, tasks, errors, ioLog>>

\* step 1 of readDirectory: await validatePath(directory, options?.securityConfig)
ReadDirectoryValidate ==
  /\ phase = "call" /\ call.op = "readDirectory"
  /\ LET r == validatePath(call.path, call.options.securityConfig, fs) IN
       /\ ioLog' = ioLog \o r.ops
       /\ IF r.code # ""
          THEN outcome' = SecurityError(r.code, call.path) /\ phase' = "done"
          ELSE outcome' = outcome /\ phase' = "rootstat"
  /\ UNCHANGED <<call, fs, tasks, errors>>

\* step 2: the thrown error of the stat of the root, Pending when it is a directory
readDirectory_stat(directory, fsys) ==
  LET stats == Stat(fsys, PathResolve(directory)) IN
  IF stats.err = "ENOENT" THEN FileReadError("DIR_NOT_FOUND", directory, "")
  ELSE IF stats.err # "" THEN RawError(stats.err)
  ELSE IF ~stats.isDirectory THEN FileReadError("NOT_A_DIRECTORY", directory, "")
  ELSE Pending

ReadDirectoryStat ==
  /\ phase = "rootstat"
  /\ ioLog' = Append(ioLog, Op("stat", PathResolve(call.path)))
  /\ LET e == readDirectory_stat(call.path, fs) IN
       IF e.kind # "pending"
       THEN outcome' = e /\ phase' = "done"
       ELSE outcome' = outcome /\ phase' = "scan"
  /\ UNCHANGED <<call, fs, tasks, errors>>

\* the caller's exclude list taking the place of the default one
readDirectory_files_replaceDefaults(directory, options, fsys) ==
  LET include == OrElse(options.include, << <<GLOBSTAR, SLASH, STAR>> >>)
      exclude == OrElse(options.exclude, DEFAULT_EXCLUDE_PATTERNS)
  IN Fg(fsys, PathResolve(directory), include, exclude)

\* steps 3-4: the list fg returns for the call's options
readDirectory_files(directory, options, fsys) ==
  LET include == OrElse(options.include, << <<GLOBSTAR, SLASH, STAR>> >>)
      userExclude == OrElse(options.exclude, <<>>)
      exclude == DEFAULT_EXCLUDE_PATTERNS \o userExclude
  IN Fg(fsys, PathResolve(directory), include, exclude)

\* step 5: the ceiling the count is held against
readDirectory_maxFiles(options) == OrElse(options.maxFiles, DEFAULT_MAX_FILES)

\* steps 3-7: the scan, the count check and, when it passes, the start of
\* readFiles on path.join(directory, file) for each file
ReadDirectoryScan ==
  /\ phase = "scan"
  /\ ioLog' = Append(ioLog, Op("scan", PathResolve(call.path)))
  /\ LET files == readDirectory_files(call.path, call.options, fs) IN
       IF validateFileCount(Len(files), readDirectory_maxFiles(call.options))
       THEN /\ outcome' = SecurityError("FILE_LIMIT_EXCEEDED", <<>>)
            /\ phase' = "done"
            /\ tasks' = tasks
       ELSE /\ outcome' = outcome
            /\ phase' = "loading"
            /\ tasks' = StartLoads([i \in 1..Len(files) |-> PathJoin(call.path, files[i])])
  /\ UNCHANGED <<call, fs, errors>>

\* the returned entries left as readFiles gave them, path relative to the working directory
Rewritten_keepInput(directory, files) == files

\* step 8: each returned path rewritten relative to `directory`
Rewritten(directory, files) ==
  [i \in 1..Len(files) |->
     [files[i] EXCEPT !.path = ReplaceBackslashes(PathRelative(directory, files[i].absolutePath))]]

ReadDirectoryReturn ==
  /\ phase = "loading" /\ call.op = "readDirectory"
  /\ \A i \in 1..Len(tasks) : Settled(tasks[i])
  /\ outcome' = Value(Rewritten(call.path, Results(tasks)))
  /\ phase' = "done"
  /\ UNCHANGED <<call, fs, tasks, errors, ioLog>>

----------------------------------------------------------------------------
(* Spec: readFile, readFiles and readDirectory on a fixed filesystem *)

P(segs) == Join(segs, SLASH)
Name(base, ext) == <<base, DOT, ext>>

BigSize == DEFAULT_MAX_FILE_SIZE + 1

\* /w/src/index.ts
WorldIndexTs == <<SLASH, "w", SLASH>> \o SrcIndexTs

World ==
  (<<SLASH, "w">> :> Dir)
  @@ (<<SLASH, "w", SLASH, "src">> :> Dir)
  @@ (WorldIndexTs :> File(10))
  @@ (<<SLASH, "w", SLASH, "src", SLASH, "big", DOT, "ts">> :> File(BigSize))
  @@ (<<SLASH, "w", SLASH, "src", SLASH, "link", DOT, "ts">> :> Symlink(WorldIndexTs))
  @@ (<<SLASH, "w", SLASH, "src", SLASH, "logo", DOT, "png">> :> File(5))
  @@ (<<SLASH, "w", SLASH, "src", SLASH, "icon", DOT, "PNG">> :> File(5))
  @@ (<<SLASH, "w", SLASH, "src", SLASH, DOT, "env">> :> File(3))
  @@ (<<SLASH, "w", SLASH, "lib">> :> Dir)
  @@ (<<SLASH, "w", SLASH, "lib", SLASH, "a", DOT, "ts">> :> File(2))
  @@ (<<SLASH, "w", SLASH, "lib", SLASH, "locked", DOT, "ts">> :> FileFailing(7, "EACCES"))
  @@ (<<SLASH, "w", SLASH, "lib", SLASH, "x", DOT, "pem">> :> File(4))
  @@ (<<SLASH, "w", SLASH, "lib", SLASH, "edge", DOT, "ts">> :> File(DEFAULT_MAX_FILE_SIZE))
  @@ (<<SLASH, "w", SLASH, "proj">> :> Dir)
  @@ (<<SLASH, "w", SLASH, "proj", SLASH, "a", DOT, "ts">> :> File(6))
  @@ (<<SLASH, "w", SLASH, "proj", SLASH, "b", DOT, "js">> :> File(6))
  @@ (<<SLASH, "w", SLASH, "proj", SLASH, "node_modules">> :> Dir)
  @@ (<<SLASH, "w", SLASH, "proj", SLASH, "node_modules", SLASH, "c", DOT, "ts">> :> File(6))
  @@ (<<SLASH, "w", SLASH, "proj", SLASH, DOT, "cfg">> :> Dir)
  @@ (<<SLASH, "w", SLASH, "proj", SLASH, DOT, "cfg", SLASH, "h", DOT, "ts">> :> File(6))
  @@ (<<SLASH, "w", SLASH, "misc">> :> Dir)
  @@ (<<SLASH, "w", SLASH, "misc", SLASH, "bad", DOT, "ts">> :> FileFailing(7, "EIO"))
  @@ (<<SLASH, "w", SLASH, "noaccess">> :> NoAccess)
  @@ (<<SLASH, "w", SLASH, "broken">> :> Broken)
  @@ (<<SLASH, "w", SLASH, "src", BSLASH, "x", DOT, "ts">> :> File(4))
  @@ (<<SLASH, "etc", SLASH, "passwd">> :> File(9))

ReadFilePaths ==
  { SrcIndexTs,
    <<DOT, SLASH>> \o SrcIndexTs,
    P(<<<<"src">>, Name("big", "ts")>>),
    P(<<<<"src">>, Name("link", "ts")>>),
    P(<<<<"src">>, Name("logo", "png")>>),
    P(<<<<"src">>, Name("icon", "PNG")>>),
    P(<<<<"src">>, Env>>),
    P(<<<<"src">>>>),
    P(<<<<"src">>, Name("gone", "ts")>>),
    P(<<<<"lib">>, Name("a", "ts")>>),
    P(<<<<"lib">>, Name("edge", "ts")>>),
    P(<<<<"lib">>, Name("locked", "ts")>>),
    P(<<<<"misc">>, Name("bad", "ts")>>),
    P(<<<<"lib">>, Name("x", "pem")>>),
    P(<<<<"lib">>, Name("data", "db")>>),
    P(<<<<"noaccess">>>>),
    P(<<<<"broken">>>>),
    P(<<DotDot, Name("logo", "png")>>),
    <<"src", BSLASH, "x", DOT, "ts">>,
    <<SLASH>> \o P(<<<<"etc">>, <<"passwd">>>>) }

ReadFileConfigs ==
  { [NoConfig EXCEPT !.maxFileSize = size, !.allowSymlinks = links,
                     !.sensitivePatterns = pats, !.allowedDirectories = dirs] :
      size \in {None, Some(0), Some(9), Some(10), Some(BigSize)},
      links \in {None, Some(TRUE)},
      pats \in {None, Some(<<>>)},
      dirs \in {None, Some(<< <<"src">> >>)} }

ReadFileCalls == {Call("readFile", p, c) : p \in ReadFilePaths, c \in ReadFileConfigs}

ReadFilesLists ==
  { <<>>,
    <<SrcIndexTs>>,
    <<SrcIndexTs, P(<<<<"src">>, Name("gone", "ts")>>), P(<<<<"lib">>, Name("a", "ts")>>)>>,
    <<P(<<<<"src">>, Name("logo", "png")>>), SrcIndexTs, P(<<<<"src">>, Name("big", "ts")>>)>>,
    <<P(<<DotDot, <<"x">>>>), P(<<<<"src">>, Env>>), P(<<<<"lib">>, Name("locked", "ts")>>)>>,
    <<P(<<<<"lib">>, Name("data", "db")>>), P(<<DotDot, Name("logo", "png")>>),
      P(<<<<"src">>, Name("icon", "PNG")>>)>>,
    <<SrcIndexTs, SrcIndexTs>> }

ReadFilesConfigs ==
  { NoConfig,
    [NoConfig EXCEPT !.maxFileSize = Some(9)],
    [NoConfig EXCEPT !.allowedDirectories = Some(<< <<"src">> >>)] }

ReadFilesCalls ==
  {[Call("readFiles", <<>>, c) EXCEPT !.paths = ps] : ps \in ReadFilesLists, c \in ReadFilesConfigs}

\* the largest maxFiles a readDirectory call of the model passes
MaxLimit == 4

DirectoryRoots ==
  { <<"src">>, <<"lib">>, <<"proj">>, <<DOT, SLASH, "proj", SLASH>>, <<"misc">>,
    <<SLASH, "w", SLASH, "proj">>,
    <<"gone">>, SrcIndexTs, <<"noaccess">>, <<"broken">>,
    P(<<DotDot, <<"x">>>>), <<DOT, "ssh">>, P(<<<<"src">>, Name("link", "ts")>>) }

DirectoryOptions ==
  { [NoOptions EXCEPT !.maxFiles = limit, !.include = inc, !.securityConfig = sc] :
      limit \in {None} \cup {Some(k) : k \in 0..MaxLimit},
      inc \in {None, Some(<< <<GLOBSTAR, SLASH, STAR, DOT, "ts">> >>)},
      sc \in {NoConfig, [NoConfig EXCEPT !.maxFiles = Some(1)],
              [NoConfig EXCEPT !.maxFileSize = Some(5), !.allowSymlinks = Some(TRUE)]} }

\* the whole working directory is scanned only under a ceiling it exceeds
WholeTreeOptions ==
  { [NoOptions EXCEPT !.maxFiles = Some(k)] : k \in 0..MaxLimit }

\* include and exclude lists of the caller, the other options left out
SelectionOptions ==
  { [NoOptions EXCEPT !.include = inc, !.exclude = exc] :
      inc \in { None,
                Some(<< <<GLOBSTAR, SLASH, STAR, DOT, "ts">> >>),
                Some(<< <<STAR, DOT, "js">>, <<"node_modules", SLASH, STAR>> >>),
                Some(<< <<DOT, "cfg", SLASH, STAR, DOT, "ts">> >>),
                Some(<< <<GLOBSTAR, SLASH, DOT, STAR>>, <<STAR, DOT, "ts">> >>),
                Some(<<>>) },
      exc \in { Some(<<>>),
                Some(<< <<GLOBSTAR, SLASH, STAR, DOT, "js">> >>),
                Some(<< <<"a", DOT, STAR>>, <<GLOBSTAR, SLASH, "edge", DOT, "ts">> >>) } }

SelectionRoots == { <<"proj">>, <<"src">>, <<"lib">> }

ReadDirectoryCalls ==
  {[Call("readDirectory", d, NoConfig) EXCEPT !.options = o] : d \in DirectoryRoots, o \in DirectoryOptions}
  \cup {[Call("readDirectory", d, NoConfig) EXCEPT !.options = o] : d \in SelectionRoots, o \in SelectionOptions}
  \cup {[Call("readDirectory", <<DOT>>, NoConfig) EXCEPT !.options = o] : o \in WholeTreeOptions}

Init == InitCall(ReadFileCalls \cup ReadFilesCalls \cup ReadDirectoryCalls, {World})

Next ==
  \/ ReadFileCall
  \/ ReadFilesCall
  \/ ReadDirectoryValidate
  \/ ReadDirectoryStat
  \/ ReadDirectoryScan
  \/ \E i \in 1..Len(tasks) : LoadValidate(i)
  \/ \E i \in 1..Len(tasks) : LoadStat(i)
  \/ \E i \in 1..Len(tasks) : LoadSize(i)
  \/ \E i \in 1..Len(tasks) : LoadRead(i)
  \/ ReadFileReturn
  \/ ReadFilesReturn
  \/ ReadDirectoryReturn

Spec == Init /\ [][Next]_vars

\* the kinds of filesystem operation load t has issued
OpsOf(t) == {t.ops[k].op : k \in 1..Len(t.ops)}

\* C1: whenever validatePath(p, config) rejects, readFile fails with that
\* same SecurityError (same code, same path) and issues no stat and no
\* content read; the rejection is never wrapped in a FileReadError.
C1_RejectionPropagates ==
  call.op = "readFile" =>
    LET v == validatePath(call.path, call.config, fs) IN
    v.code # "" =>
      /\ \A i \in 1..Len(tasks) : OpsOf(tasks[i]) \cap {"stat", "readFile"} = {}
      /\ phase = "done" => outcome = SecurityError(v.code, call.path)

\* readFile threw the validator's rejection for a path that also has a binary extension
C1_Witness ==
  /\ call.op = "readFile" /\ phase = "done"
  /\ validatePath(call.path, call.config, fs).code # ""
  /\ isBinaryFile(call.path)
  /\ outcome = SecurityError(validatePath(call.path, call.config, fs).code, call.path)

\* C9: readFile enforces the per-file ceiling from stat before reading: a
\* validated, non-binary, existing file is rejected with SIZE_EXCEEDED iff
\* its stat size is strictly greater than the effective maxFileSize
\* (config.maxFileSize, else 1,048,576), and a load that raised
\* SIZE_EXCEEDED never issues a content read.
C9_SizeCeiling ==
  call.op = "readFile" =>
    /\ \A i \in 1..Len(tasks) :
         tasks[i].err.code = "SIZE_EXCEEDED" => "readFile" \notin OpsOf(tasks[i])
    /\ (/\ phase = "done"
        /\ validatePath(call.path, call.config, fs).code = ""
        /\ ~isBinaryFile(call.path)
        /\ Stat(fs, call.path).err = "")
       => ( (outcome.kind = "SecurityError" /\ outcome.code = "SIZE_EXCEEDED")
            <=> Stat(fs, call.path).size > OrElse(call.config.maxFileSize, DEFAULT_MAX_FILE_SIZE) )

\* a file one byte over the default ceiling was rejected, unread, with no maxFileSize given
C9_Witness ==
  /\ call.op = "readFile" /\ phase = "done"
  /\ ~call.config.maxFileSize.has
  /\ Stat(fs, call.path).size = DEFAULT_MAX_FILE_SIZE + 1
  /\ outcome.kind = "SecurityError" /\ outcome.code = "SIZE_EXCEEDED"
  /\ OpsOf(tasks[1]) = {"lstat", "stat"}

\* the scan of the root has been made
Scanned == \E k \in 1..Len(ioLog) : ioLog[k].op = "scan"

\* the number of entries the enumeration of the call's root yields
Enumerated == Len(readDirectory_files(call.path, call.options, fs))

\* C10: readDirectory checks the number of enumerated files against maxFiles
\* (options.maxFiles, else 500) before any per-file load starts: it fails
\* with FILE_LIMIT_EXCEEDED iff the enumeration yields strictly more than
\* maxFiles entries, and then no file under the root is validated, stat'ed
\* or read and no partial result is returned.
C10_FileLimit ==
  call.op = "readDirectory" =>
    LET limit == OrElse(call.options.maxFiles, DEFAULT_MAX_FILES)
        exceeded == outcome.kind = "SecurityError" /\ outcome.code = "FILE_LIMIT_EXCEEDED"
    IN /\ (phase = "done" /\ Scanned) => (exceeded <=> Enumerated > limit)
       /\ tasks # <<>> => (Scanned /\ Enumerated <= limit)
       /\ exceeded =>
            /\ phase = "done"
            /\ tasks = <<>> /\ errors = <<>>
            /\ outcome.files = <<>>
            /\ \A k \in 1..Len(ioLog) : PathResolve(ioLog[k].path) = PathResolve(call.path)

\* a scan that found exactly one file more than maxFiles failed without loading any
C10_Witness ==
  /\ call.op = "readDirectory" /\ phase = "done"
  /\ call.options.maxFiles.has
  /\ call.options.maxFiles.v > 0
  /\ Enumerated = call.options.maxFiles.v + 1
  /\ outcome.kind = "SecurityError" /\ outcome.code = "FILE_LIMIT_EXCEEDED"
  /\ tasks = <<>>

----------------------------------------------------------------------------
(* Directory reads: the ceiling, the failures that leave, the selection *)

\* readDirectory threw FILE_LIMIT_EXCEEDED
Exceeded == outcome.kind = "SecurityError" /\ outcome.code = "FILE_LIMIT_EXCEEDED"

\* C11: with securityConfig.maxFiles = m and no direct maxFiles option, a
\* scan that enumerates more than m files fails with FILE_LIMIT_EXCEEDED.
C11_SecurityConfigMaxFiles ==
  (/\ call.op = "readDirectory" /\ phase = "done" /\ Scanned
   /\ ~call.options.maxFiles.has
   /\ call.options.securityConfig.maxFiles.has
   /\ Enumerated > call.options.securityConfig.maxFiles.v)
  => Exceeded

----------------------------------------------------------------------------
(* Batch loads *)

\* readFile(p, config) on its own would return a FileContent
LoadsAlone(p, config, fsys) ==
  /\ validatePath(p, config, fsys).code = ""
  /\ ~isBinaryFile(p)
  /\ Stat(fsys, PathResolve(p)).err = ""
  /\ Stat(fsys, PathResolve(p)).size <= OrElse(config.maxFileSize, DEFAULT_MAX_FILE_SIZE)
  /\ ReadContent(fsys, PathResolve(p)) = ""

\* the positions of the input list whose path is not binary and does not load
FailingInputs ==
  {i \in 1..Len(call.paths) :
     ~isBinaryFile(call.paths[i]) /\ ~LoadsAlone(call.paths[i], call.config, fs)}

\* C12: readFiles never raises and isolates per-item failure: the call
\* returns normally; each failing non-binary path yields exactly one
\* diagnostic {path, message} and no result entry, and every other path's
\* load is still attempted and, if it succeeds, returned.
C12_BatchIsolatesFailures ==
  call.op = "readFiles" =>
    /\ outcome.kind \in {"pending", "value"}
    /\ phase = "done" =>
         /\ outcome.kind = "value"
         /\ Len(errors) = Cardinality(FailingInputs)
         /\ \A i \in FailingInputs :
              /\ Cardinality({k \in 1..Len(errors) : errors[k].path = call.paths[i]})
                   = Cardinality({j \in FailingInputs : call.paths[j] = call.paths[i]})
              /\ \A k \in 1..Len(errors) :
                   errors[k].path = call.paths[i] => errors[k].error = Message(tasks[i].err)
              /\ tasks[i].err.kind \in {"SecurityError", "FileReadError"}
              /\ \A j \in 1..Len(outcome.files) : outcome.files[j].path # call.paths[i]
         /\ \A i \in 1..Len(call.paths) :
              LoadsAlone(call.paths[i], call.config, fs) =>
                /\ "readFile" \in OpsOf(tasks[i])
                /\ \E j \in 1..Len(outcome.files) : outcome.files[j].path = call.paths[i]

\* three paths, the middle one missing: two results and one diagnostic
C12_Witness ==
  /\ call.op = "readFiles" /\ phase = "done"
  /\ Len(call.paths) = 3
  /\ FailingInputs = {2}
  /\ Stat(fs, PathResolve(call.paths[2])).err = "ENOENT"
  /\ Len(outcome.files) = 2 /\ Len(errors) = 1
  /\ outcome.kind = "value"

\* a batch call (readFiles, or readDirectory built on it) has returned
BatchReturned ==
  call.op \in {"readFiles", "readDirectory"} /\ phase = "done" /\ outcome.kind = "value"

\* the elements of the returned array
ReturnedEntries == {outcome.files[j] : j \in 1..Len(outcome.files)}

SettleOrder == SelectSeq(ioLog, LAMBDA o : o.op = "settled")

\* C14: under every interleaving of the concurrent loads the list returned
\* by readFiles is order-preserving: if a and b both load and a precedes b
\* in the input list, a's FileContent precedes b's in the result.
C14_OrderPreserved ==
  (call.op = "readFiles" /\ phase = "done") =>
    [j \in 1..Len(outcome.files) |-> outcome.files[j].path]
      = SelectSeq(call.paths, LAMBDA p : LoadsAlone(p, call.config, fs))

\* two loads succeeded, the later input settled first, and the result is in input order
C14_Witness ==
  /\ call.op = "readFiles" /\ phase = "done"
  /\ Len(outcome.files) >= 2
  /\ outcome.files[1].path # outcome.files[2].path
  /\ \E k1, k2 \in 1..Len(SettleOrder) :
       /\ k1 < k2
       /\ SettleOrder[k1].index > SettleOrder[k2].index
       /\ SettleOrder[k1].path = outcome.files[2].path
       /\ SettleOrder[k2].path = outcome.files[1].path

\* C15: in readFiles a path with a registered binary extension (compared
\* case-insensitively) is silently skipped: no validation and no filesystem
\* operation is performed for it, it contributes no result entry and no
\* diagnostic, even when validatePath would reject the path.
C15_BinarySkipped ==
  call.op = "readFiles" =>
    \A i \in 1..Len(tasks) :
      isBinaryFile(call.paths[i]) =>
        /\ tasks[i].pc = "skipped" /\ tasks[i].ops = <<>>
        /\ \A k \in 1..Len(errors) : errors[k].path # call.paths[i]
        /\ \A k \in 1..Len(ioLog) : ioLog[k].path # call.paths[i]
        /\ \A j \in 1..Len(outcome.files) : outcome.files[j].path # call.paths[i]

\* a batch of binary paths only (one a traversal, one sensitive, one with an
\* upper-case extension) returned nothing and logged nothing
C15_Witness ==
  /\ call.op = "readFiles" /\ phase = "done"
  /\ \E i \in 1..Len(call.paths) :
       /\ isBinaryFile(call.paths[i])
       /\ validatePath(call.paths[i], call.config, fs).code = "PATH_TRAVERSAL"
  /\ \E i \in 1..Len(call.paths) :
       /\ isBinaryFile(call.paths[i])
       /\ validatePath(call.paths[i], call.config, fs).code = "SENSITIVE_FILE"
  /\ \E i \in 1..Len(call.paths) :
       /\ isBinaryFile(call.paths[i])
       /\ PathExtname(call.paths[i]) # LowerAll(PathExtname(call.paths[i]))
  /\ outcome = Value(<<>>) /\ errors = <<>>

----------------------------------------------------------------------------
(* Single loads: binary paths and the classification of failures *)

\* the extension of p, lower-cased, is one of the registered binary extensions
HasBinaryExtension(p) ==
  LowerAll(PathExtname(p)) \in {<<DOT, e>> : e \in BINARY_EXTENSIONS}

\* C16: readFile on a path that passes validatePath and has a registered
\* binary extension (case-insensitive) fails with a FileReadError before the
\* path is stat'ed or read; readFile never returns a FileContent whose path
\* has a binary extension.
C16_BinaryRejected ==
  call.op = "readFile" =>
    /\ (HasBinaryExtension(call.path) /\ validatePath(call.path, call.config, fs).code = "") =>
         /\ \A i \in 1..Len(tasks) : OpsOf(tasks[i]) \cap {"stat", "readFile"} = {}
         /\ phase = "done" => (outcome.kind = "FileReadError" /\ outcome.path = call.path)
    /\ \A j \in 1..Len(outcome.files) : ~HasBinaryExtension(outcome.files[j].path)

\* an existing file with an upper-case binary extension was refused without a stat
C16_Witness ==
  /\ call.op = "readFile" /\ phase = "done"
  /\ PathExtname(call.path) = <<DOT, "PNG">>
  /\ Stat(fs, PathResolve(call.path)).err = ""
  /\ validatePath(call.path, call.config, fs).code = ""
  /\ outcome.kind = "FileReadError"
  /\ "stat" \notin OpsOf(tasks[1])

\* the failure kind the cause of a stat or read failure is classified as
KindOf(errno) ==
  CASE errno = "ENOENT" -> "NOT_FOUND"
    [] errno = "EACCES" -> "ACCESS_DENIED"
    [] errno = "EISDIR" -> "IS_DIRECTORY"
    [] OTHER -> "READ_FAILED"

\* the errno of the first filesystem failure of a validated, non-binary load
\* of p, "" when the stat and the read both succeed or the size check stops it
FirstFsFailure(p, config, fsys) ==
  LET stats == Stat(fsys, PathResolve(p)) IN
  IF stats.err # "" THEN stats.err
  ELSE IF stats.size > OrElse(config.maxFileSize, DEFAULT_MAX_FILE_SIZE) THEN ""
  ELSE ReadContent(fsys, PathResolve(p))

\* C17: readFile ends in exactly one of a FileContent, a SecurityError or a
\* FileReadError, never a raw filesystem error; a stat or read failure is
\* classified by its cause (not-found, permission-denied, is-a-directory,
\* anything else) and carries the input path and the underlying cause.
C17_FailureClassified ==
  (call.op = "readFile" /\ phase = "done") =>
    /\ outcome.kind \in {"value", "SecurityError", "FileReadError"}
    /\ outcome.kind = "value" <=> Len(outcome.files) = 1
    /\ (/\ validatePath(call.path, call.config, fs).code = ""
        /\ ~HasBinaryExtension(call.path)
        /\ FirstFsFailure(call.path, call.config, fs) # "")
       => LET errno == FirstFsFailure(call.path, call.config, fs) IN
          /\ outcome.kind = "FileReadError"
          /\ outcome.code = KindOf(errno)
          /\ outcome.path = call.path
          /\ outcome.cause = errno

\* a directory passed the stat and the size check and its read failed with EISDIR
C17_Witness ==
  /\ call.op = "readFile" /\ phase = "done"
  /\ Stat(fs, PathResolve(call.path)).isDirectory
  /\ outcome = FileReadError("IS_DIRECTORY", call.path, "EISDIR")
  /\ OpsOf(tasks[1]) = {"lstat", "stat", "readFile"}

\* C18: readDirectory propagates only failures global to the operation, each
\* typed: a rejected root gives a SecurityError, a missing root or one that
\* is not a directory a FileReadError, an exceeded count FILE_LIMIT_EXCEEDED;
\* any other failure to stat the root also surfaces as one of the two error
\* families, never as a raw filesystem error; a failure of a file under the
\* root never makes readDirectory raise.
C18_OnlyTypedFailures ==
  (call.op = "readDirectory" /\ phase = "done") =>
    LET rejected == validatePath(call.path, call.options.securityConfig, fs).code # ""
        stats == Stat(fs, PathResolve(call.path))
    IN /\ outcome.kind \in {"value", "SecurityError", "FileReadError"}
       /\ rejected => outcome.kind = "SecurityError"
       /\ (~rejected /\ (stats.err = "ENOENT" \/ (stats.err = "" /\ ~stats.isDirectory)))
            => outcome.kind = "FileReadError"
       /\ tasks # <<>> => outcome.kind = "value"

----------------------------------------------------------------------------
(* Directory reads: which files are selected *)

\* the paths readDirectory returned, relative to the root
ReturnedPaths == {outcome.files[j].path : j \in 1..Len(outcome.files)}

\* a glob match at its most permissive: dot files allowed
Permissive == [dot |-> TRUE, nocase |-> FALSE]

\* C19: the paths readDirectory returns are files under the root that match
\* at least one include glob (default '**/*') and match none of the default
\* exclude globs, the caller's exclude globs and the derived binary-extension
\* globs; caller excludes add to the defaults.  For a root holding a.ts, b.js
\* and node_modules/c.ts with include ['**/*.ts'] the result is exactly ['a.ts'].
C19_Selection ==
  (call.op = "readDirectory" /\ phase = "done" /\ outcome.kind = "value") =>
    LET include == OrElse(call.options.include, << <<GLOBSTAR, SLASH, STAR>> >>)
        userExclude == OrElse(call.options.exclude, <<>>)
    IN /\ \A rel \in ReturnedPaths :
            /\ Lookup(fs, PathResolve(PathJoin(call.path, rel))).kind = "file"
            /\ IsSegPrefix(AbsSegs(PathResolve(call.path)), AbsSegs(PathResolve(PathJoin(call.path, rel))))
            /\ IsMatch(rel, include, Permissive)
            /\ ~IsMatch(rel, DEFAULT_EXCLUDE_PATTERNS, Permissive)
            /\ ~IsMatch(rel, userExclude, Permissive)
            /\ \A ext \in BINARY_EXTENSIONS :
                 ~GlobMatch(rel, <<GLOBSTAR, SLASH, STAR, DOT, ext>>, Permissive)
       /\ (/\ PathResolve(call.path) = <<SLASH, "w", SLASH, "proj">>
           /\ call.options.include = Some(<< <<GLOBSTAR, SLASH, STAR, DOT, "ts">> >>)
           /\ userExclude = <<>>
           /\ call.options.securityConfig = NoConfig)
          => [j \in 1..Len(outcome.files) |-> outcome.files[j].path] = << <<"a", DOT, "ts">> >>

\* proj (a.ts, b.js, node_modules/c.ts) was read with include ['**/*.ts'] and
\* an exclude list of the caller, and a.ts alone came back
C19_Witness ==
  /\ call.op = "readDirectory" /\ phase = "done"
  /\ PathResolve(call.path) = <<SLASH, "w", SLASH, "proj">>
  /\ call.options.include = Some(<< <<GLOBSTAR, SLASH, STAR, DOT, "ts">> >>)
  /\ call.options.exclude = Some(<< <<GLOBSTAR, SLASH, STAR, DOT, "js">> >>)
  /\ ReturnedPaths = { <<"a", DOT, "ts">> }

\* some segment of the relative path rel starts with "."
HasHiddenSegment(rel) ==
  \E s \in {Split(rel, {SLASH})[k] : k \in 1..Len(Split(rel, {SLASH}))} :
    Len(s) > 0 /\ s[1] = DOT

\* rel, or a directory on the way to it from the root, is a symbolic link
ThroughSymlink(fsys, root, rel) ==
  LET segs == Split(rel, {SLASH}) IN
  \E n \in 1..Len(segs) :
    Lookup(fsys, PathResolve(PathJoin(root, Join(SubSeq(segs, 1, n), SLASH)))).kind = "symlink"

\* the relative paths the scan of the call's root lists
EnumeratedPaths ==
  LET files == readDirectory_files(call.path, call.options, fs) IN
  {files[k] : k \in 1..Len(files)}

\* C20: readDirectory never enumerates or returns a hidden (dot-prefixed)
\* entry, anything below a hidden directory, or anything reached through a
\* symbolic link, for every choice of include patterns, also patterns that
\* name a dot-prefixed entry explicitly.
C20_NoHiddenNoLinks ==
  (call.op = "readDirectory" /\ Scanned) =>
    \A rel \in EnumeratedPaths \cup ReturnedPaths :
      /\ ~HasHiddenSegment(rel)
      /\ ~ThroughSymlink(fs, call.path, rel)

----------------------------------------------------------------------------
(* The paths of a FileContent *)

\* C21: for every FileContent f returned by readDirectory(root), f.path is
\* relative to the requested root and uses forward slashes, and resolving
\* f.path against the resolved root gives exactly f.absolutePath, whether
\* root was relative or absolute; for readFile, path equals the input path
\* and absolutePath is the resolution of the input path with forward slashes.
C21_PathRoundTrip ==
  (phase = "done" /\ outcome.kind = "value") =>
    /\ call.op = "readDirectory" =>
         \A j \in 1..Len(outcome.files) :
           LET f == outcome.files[j] IN
           /\ ~PathIsAbsolute(f.path)
           /\ ~StartsWith(f.path, DotDot)
           /\ \A k \in 1..Len(f.path) : f.path[k] # BSLASH
           /\ PathResolveFrom(PathResolve(call.path), f.path) = f.absolutePath
    /\ call.op = "readFile" =>
         /\ outcome.files[1].path = call.path
         /\ outcome.files[1].absolutePath = ReplaceBackslashes(PathResolve(call.path))

\* a scan of a root given as an absolute path returned a file
C21_Witness ==
  /\ call.op = "readDirectory" /\ phase = "done"
  /\ PathIsAbsolute(call.path)
  /\ outcome.kind = "value"
  /\ \E j \in 1..Len(outcome.files) :
       /\ outcome.files[j].path = <<"a", DOT, "ts">>
       /\ outcome.files[j].absolutePath = <<SLASH, "w", SLASH, "proj", SLASH, "a", DOT, "ts">>

----------------------------------------------------------------------------
(* Loads: no retry, no interference, termination *)

\* the number of content reads load t has issued
ReadsOf(t) == Cardinality({k \in 1..Len(t.ops) : t.ops[k].op = "readFile"})

\* C22: there is no retry: within one call each input path is loaded at most
\* once, its content is read at most once, and once a step for that path has
\* failed no further filesystem operation is issued for it; the failure is
\* that path's final outcome.
C22_NoRetry ==
  [][ tasks # <<>> =>
        /\ Len(tasks') = Len(tasks)
        /\ \A i \in 1..Len(tasks) :
             /\ tasks'[i].path = tasks[i].path
             /\ ReadsOf(tasks'[i]) <= 1
             /\ Settled(tasks[i]) => tasks'[i] = tasks[i]
             /\ Len(tasks'[i].ops) >= Len(tasks[i].ops) ]_vars

\* in a finished batch a load whose read failed had issued that one read,
\* while another load of the batch went through
C22_Witness ==
  /\ InBatch /\ phase = "done"
  /\ \E i \in 1..Len(tasks) :
       /\ tasks[i].pc = "failed"
       /\ tasks[i].err.kind = "FileReadError"
       /\ ReadsOf(tasks[i]) = 1
  /\ \E i \in 1..Len(tasks) : tasks[i].pc = "done"

----------------------------------------------------------------------------
(* SpecConcurrent: two batch calls in flight at once on one filesystem.    *)
(* Here call, phase, tasks, errors and outcome are pairs, one component    *)
(* per call; everything a call works on is local to its invocation.        *)

\* the config the loads of call c run under
ConfigOf(c) == IF c.op = "readDirectory" THEN c.options.securityConfig ELSE c.config

\* one step of readFile for load t
LoadStep(t, config, fsys) ==
  CASE t.pc = "validate" -> readFile_validate(t, config, fsys)
    [] t.pc = "stat" -> readFile_stat(t, fsys)
    [] t.pc = "size" -> readFile_size(t, config, fsys)
    [] t.pc = "read" -> readFile_read(t, fsys)
    [] OTHER -> t

\* one `errors` array for the whole module instead of one per call
ErrorsOwner_shared(n) == 1

\* the `errors` array invocation n of readFiles pushes to: the one it declared
ErrorsOwner(n) == n

PairCalls ==
  { [Call("readFiles", <<>>, NoConfig) EXCEPT !.paths = <<SrcIndexTs, P(<<<<"src">>, Name("gone", "ts")>>)>>],
    [Call("readFiles", <<>>, [NoConfig EXCEPT !.maxFileSize = Some(9)])
       EXCEPT !.paths = <<P(<<<<"lib">>, Name("a", "ts")>>), SrcIndexTs, P(<<<<"src">>, Name("logo", "png")>>)>>],
    [Call("readFiles", <<>>, NoConfig)
       EXCEPT !.paths = <<P(<<<<"lib">>, Name("locked", "ts")>>), P(<<<<"src">>, Env>>)>>],
    Call("readDirectory", <<"proj">>, NoConfig),
    [Call("readDirectory", <<"lib">>, NoConfig)
       EXCEPT !.options = [NoOptions EXCEPT !.include = Some(<< <<"a", DOT, "ts">>, <<STAR, DOT, "pem">> >>)]],
    [Call("readDirectory", <<"src">>, NoConfig)
       EXCEPT !.options = [NoOptions EXCEPT !.maxFiles = Some(1)]],
    Call("readDirectory", <<"gone">>, NoConfig),
    Call("readDirectory", DotDot, NoConfig) }

InitConcurrent ==
  /\ call \in PairCalls \X PairCalls
  /\ fs = World
  /\ phase = <<"call", "call">>
  /\ tasks = << <<>>, <<>> >>
  /\ errors = << <<>>, <<>> >>
  /\ ioLog = <<>>
  /\ outcome = <<Pending, Pending>>

\* invocation n ends with outcome o
PairFinish(n, o) ==
  /\ outcome' = [outcome EXCEPT ![n] = o]
  /\ phase' = [phase EXCEPT ![n] = "done"]

\* invocation n moves to phase ph
PairMove(n, ph) ==
  /\ outcome' = outcome
  /\ phase' = [phase EXCEPT ![n] = ph]

PairReadFilesCall(n) ==
  /\ phase[n] = "call" /\ call[n].op = "readFiles"
  /\ tasks' = [tasks EXCEPT ![n] = StartLoads(call[n].paths)]
  /\ PairMove(n, "loading")
  /\ UNCHANGED <<call, fs, errors, ioLog>>

PairDirectoryValidate(n) ==
  /\ phase[n] = "call" /\ call[n].op = "readDirectory"
  /\ LET r == validatePath(call[n].path, call[n].options.securityConfig, fs) IN
       IF r.code # "" THEN PairFinish(n, SecurityError(r.code, call[n].path))
       ELSE PairMove(n, "rootstat")
  /\ UNCHANGED <<call, fs, tasks, errors, ioLog>>

PairDirectoryStat(n) ==
  /\ phase[n] = "rootstat"
  /\ LET e == readDirectory_stat(call[n].path, fs) IN
       IF e.kind # "pending" THEN PairFinish(n, e) ELSE PairMove(n, "scan")
  /\ UNCHANGED <<call, fs, tasks, errors, ioLog>>

PairDirectoryScan(n) ==
  /\ phase[n] = "scan"
  /\ LET files == readDirectory_files(call[n].path, call[n].options, fs) IN
       IF validateFileCount(Len(files), readDirectory_maxFiles(call[n].options))
       THEN /\ PairFinish(n, SecurityError("FILE_LIMIT_EXCEEDED", <<>>))
            /\ tasks' = tasks
       ELSE /\ PairMove(n, "loading")
            /\ tasks' = [tasks EXCEPT ![n] =
                           StartLoads([i \in 1..Len(files) |-> PathJoin(call[n].path, files[i])])]
  /\ UNCHANGED <<call, fs, errors, ioLog>>

\* load i of invocation n takes its next step
PairLoad(n, i) ==
  /\ phase[n] = "loading" /\ ~Settled(tasks[n][i])
  /\ LET t == LoadStep(tasks[n][i], ConfigOf(call[n]), fs) IN
       /\ tasks' = [tasks EXCEPT ![n][i] = t]
       /\ errors' = IF t.pc = "failed"
                    THEN [errors EXCEPT ![ErrorsOwner(n)] =
                            Append(@, [path |-> t.path, error |-> Message(t.err)])]
                    ELSE errors
  /\ UNCHANGED <<call, fs, phase, ioLog, outcome>>

PairReturn(n) ==
  /\ phase[n] = "loading"
  /\ \A i \in 1..Len(tasks[n]) : Settled(tasks[n][i])
  /\ PairFinish(n, IF call[n].op = "readDirectory"
                   THEN Value(Rewritten(call[n].path, Results(tasks[n])))
                   ELSE Value(Results(tasks[n])))
  /\ UNCHANGED <<call, fs, tasks, errors, ioLog>>

NextConcurrent ==
  \E n \in {1, 2} :
    \/ PairReadFilesCall(n)
    \/ PairDirectoryValidate(n)
    \/ PairDirectoryStat(n)
    \/ PairDirectoryScan(n)
    \/ \E i \in 1..Len(tasks[n]) : PairLoad(n, i)
    \/ PairReturn(n)

SpecConcurrent == InitConcurrent /\ [][NextConcurrent]_vars

\* load t run to its final state with nothing else going on: a load takes
\* at most four steps, and LoadStep leaves a finished load as it is
RunLoad(t, config, fsys) ==
  LET s1 == {LoadStep(s, config, fsys) : s \in {t}}
      s2 == {LoadStep(s, config, fsys) : s \in s1}
      s3 == {LoadStep(s, config, fsys) : s \in s2}
      s4 == {LoadStep(s, config, fsys) : s \in s3}
  IN CHOOSE s \in s4 : TRUE

\* the loads of call c run one after the other on fsys
AloneLoads(c, fsys) ==
  LET files == IF c.op = "readDirectory"
               THEN { [i \in 1..Len(fl) |-> PathJoin(c.path, fl[i])] :
                        fl \in {readDirectory_files(c.path, c.options, fsys)} }
               ELSE {c.paths}
      loads == { [i \in 1..Len(started) |-> RunLoad(started[i], ConfigOf(c), fsys)] :
                   started \in {StartLoads(f) : f \in files} }
  IN CHOOSE ts \in loads : TRUE

\* what call c returns or throws when it is the only call
AloneOutcome(c, fsys) ==
  IF c.op = "readFiles" THEN Value(Results(AloneLoads(c, fsys)))
  ELSE LET r == validatePath(c.path, c.options.securityConfig, fsys)
           e == readDirectory_stat(c.path, fsys)
           fl == readDirectory_files(c.path, c.options, fsys) IN
       IF r.code # "" THEN SecurityError(r.code, c.path)
       ELSE IF e.kind # "pending" THEN e
       ELSE IF validateFileCount(Len(fl), readDirectory_maxFiles(c.options))
            THEN SecurityError("FILE_LIMIT_EXCEEDED", <<>>)
       ELSE Value(Rewritten(c.path, Results(AloneLoads(c, fsys))))

\* the diagnostics call c collects when it is the only call
AloneDiagnostics(c, fsys) ==
  IF AloneOutcome(c, fsys).kind # "value" THEN {}
  ELSE LET ts == AloneLoads(c, fsys) IN
       { [path |-> ts[i].path, error |-> Message(ts[i].err)] :
           i \in {k \in 1..Len(ts) : ts[k].pc = "failed"} }

\* C23: two batch calls interleaved on one filesystem do not interfere:
\* at every moment each call's diagnostics are those of its own failed
\* loads, each finished load is what it is when the call runs alone, and a
\* finished call has the outcome and the diagnostics it has alone.
C23_NoInterference ==
  \A n \in {1, 2} :
    /\ Len(errors[n]) = Cardinality({i \in 1..Len(tasks[n]) : tasks[n][i].pc = "failed"})
    /\ \A k \in 1..Len(errors[n]) :
         \E i \in 1..Len(tasks[n]) :
           /\ tasks[n][i].pc = "failed"
           /\ errors[n][k] = [path |-> tasks[n][i].path, error |-> Message(tasks[n][i].err)]
    /\ \A i \in 1..Len(tasks[n]) :
         tasks[n][i].pc \in {"done", "failed", "skipped"} =>
           tasks[n][i] = AloneLoads(call[n], World)[i]
    /\ phase[n] = "done" =>
         /\ outcome[n] = AloneOutcome(call[n], World)
         /\ {errors[n][k] : k \in 1..Len(errors[n])} = AloneDiagnostics(call[n], World)

\* one call has returned files and kept diagnostics while the other, with
\* a diagnostic of its own, still has loads in flight
C23_Witness ==
  /\ call[1].op = "readDirectory" /\ call[2].op = "readFiles"
  /\ phase[1] = "done" /\ outcome[1].kind = "value" /\ outcome[1].files # <<>>
  /\ errors[1] # <<>>
  /\ phase[2] = "loading" /\ errors[2] # <<>>
  /\ \E i \in 1..Len(tasks[2]) : tasks[2][i].pc \in {"stat", "size", "read"}

----------------------------------------------------------------------------
(* C24, C29: validatePath's effects and the allow-list *)

\* the checks that reject before the link status is looked up
EarlyCodes == {"PATH_TRAVERSAL", "SENSITIVE_FILE", "ACCESS_DENIED"}

\* C24: validatePath issues no filesystem operation when it rejects by the
\* traversal, sensitive-file or allow-list check or when allowSymlinks is
\* true, and exactly one lstat of the input path otherwise; it reads no
\* content and leaves its arguments and the filesystem as they were.
C24_OneLookupAtMost ==
  [][ call.op = "validatePath" =>
        /\ call' = call /\ fs' = fs /\ tasks' = tasks /\ errors' = errors
        /\ ioLog' =
             IF outcome'.code \in EarlyCodes \/ OrElse(call.config.allowSymlinks, FALSE)
             THEN <<>>
             ELSE <<[op |-> "lstat", path |-> call.path]>> ]_vars

\* an existing regular file inside the allow-list was accepted after one lstat
C24_Witness ==
  /\ phase = "done" /\ call.op = "validatePath"
  /\ call.config.allowedDirectories \notin {None, Some(<<>>)}
  /\ call.config.allowSymlinks = None
  /\ Named(fs, call.path).kind = "file"
  /\ outcome = Resolved
  /\ Len(ioLog) = 1 /\ ioLog[1].op = "lstat"

\* C29: whatever allowedDirectories contains, a path that resolves outside
\* the working directory is never accepted by validatePath: it is rejected
\* with PATH_TRAVERSAL, also when it lies inside a listed directory.
C29_AllowListOnlyNarrows ==
  (/\ phase = "done" /\ call.op = "validatePath"
   /\ ~ResolvesInside(call.path, CWD))
  => /\ outcome # Resolved
     /\ outcome.kind = "SecurityError" /\ outcome.code = "PATH_TRAVERSAL"

\* a non-sensitive path inside a listed directory outside the working
\* directory was rejected as a traversal
C29_Witness ==
  /\ phase = "done" /\ call.op = "validatePath"
  /\ call.config.allowedDirectories.has
  /\ call.config.allowedDirectories.v # <<>>
  /\ ContainedInSome(call.path, call.config.allowedDirectories.v)
  /\ ~ResolvesInside(call.path, CWD)
  /\ ~isSensitiveFile(call.path, DEFAULT_SENSITIVE_PATTERNS)
  /\ outcome.code = "PATH_TRAVERSAL"

----------------------------------------------------------------------------
(* SpecLive: the readFiles calls of Spec with every step that can be taken *)
(* eventually taken: a pending filesystem operation completes (with a      *)
(* result or an error) and a continuation that is ready runs.  The steps   *)
(* of a load are those of LoadStep, looked up in a table.                  *)

InitLive == InitCall(ReadFilesCalls, {World})

\* the paths the readFiles calls of the model name
LivePaths == UNION { {ps[i] : i \in 1..Len(ps)} : ps \in ReadFilesLists }

RECURSIVE StepsFrom(_, _, _)
\* load t and the states it goes through in its next n steps
StepsFrom(t, config, n) ==
  IF n = 0 THEN <<t>>
  ELSE <<t>> \o StepsFrom(LoadStep(t, config, World), config, n - 1)

\* readFile on World, tabulated: for each config and path the states the
\* load goes through, from validate to its final state
LoadTable ==
  [config \in ReadFilesConfigs |-> [p \in LivePaths |-> StepsFrom(NewLoad(p), config, 4)]]

\* the state that follows t on World (nothing else writes the filesystem)
NextLoad(t, config) ==
  LET steps == LoadTable[config][t.path]
      k == CHOOSE k \in 1..4 : steps[k] = t
  IN steps[k + 1]

\* load i takes its next step: the pending validation, stat or read completes
LiveLoad(i) ==
  /\ phase = "loading" /\ tasks[i].pc \in {"validate", "stat", "size", "read"}
  /\ Advance(i, NextLoad(tasks[i], call.config))

NextLive ==
  \/ ReadFilesCall
  \/ \E i \in 1..Len(tasks) : LiveLoad(i)
  \/ ReadFilesReturn

SpecLive == InitLive /\ [][NextLive]_vars /\ WF_vars(NextLive)

\* readFiles has returned its list and no load of it is still in flight
ReadFilesTerminated ==
  /\ phase = "done" /\ outcome.kind = "value"
  /\ \A i \in 1..Len(tasks) : tasks[i].pc \in {"done", "failed", "skipped"}

\* C25: every readFiles call eventually returns its result list, and when
\* it does every load it started has reached a final outcome (success,
\* diagnostic or binary skip).
C25_ReadFilesTerminates ==
  (call.op = "readFiles" /\ phase = "call") ~> ReadFilesTerminated

\* a readFiles call returned after a success, a diagnostic and a binary skip
C25_Witness ==
  /\ call.op = "readFiles" /\ ReadFilesTerminated
  /\ \E i \in 1..Len(tasks) : tasks[i].pc = "done"
  /\ \E i \in 1..Len(tasks) : tasks[i].pc = "failed"
  /\ \E i \in 1..Len(tasks) : tasks[i].pc = "skipped"

----------------------------------------------------------------------------
(* SpecAnalyze: handleAnalyzeCodebase(params, client) on World.  call.params *)
(* is params; the handler's read is the readDirectory or readFiles call of   *)
(* Spec, whose arguments the handler writes into `call`; filesToAnalyze is   *)
(* kept in outcome.files until the handler returns; ioLog also records the   *)
(* model call.                                                               *)

\* const hasDirectory = !!params.directory
hasDirectory(params) == params.directory.has /\ params.directory.v # <<>>

\* const hasFilePaths = params.filePaths && params.filePaths.length > 0
hasFilePaths(params) == params.filePaths.has /\ Len(params.filePaths.v) > 0

\* const hasFiles = params.files && params.files.length > 0
hasFiles(params) == params.files.has /\ Len(params.files.v) > 0

\* filePaths looked at before directory
InputSource_filePathsFirst(params) ==
  IF hasFilePaths(params) THEN "filePaths"
  ELSE IF hasDirectory(params) THEN "directory"
  ELSE IF hasFiles(params) THEN "files"
  ELSE "none"

\* the branch of the if / else if / else chain taken for params
InputSource(params) ==
  IF hasDirectory(params) THEN "directory"
  ELSE IF hasFilePaths(params) THEN "filePaths"
  ELSE IF hasFiles(params) THEN "files"
  ELSE "none"

\* readDirectory(params.directory, { include, exclude })
DirectoryCall(params) ==
  [Call("readDirectory", params.directory.v, NoConfig)
     EXCEPT !.options = [NoOptions EXCEPT !.include = params.include, !.exclude = params.exclude]]

\* readFiles(params.filePaths)
FilePathsCall(params) ==
  [Call("readFiles", <<>>, NoConfig) EXCEPT !.paths = params.filePaths.v]

\* an entry of filesToAnalyze; content stands for "the content is not empty"
AnalyzedFile(p, content) == [path |-> p, content |-> content]

convertFileContents(fileContents) ==
  [i \in 1..Len(fileContents) |-> AnalyzedFile(fileContents[i].path, fileContents[i].size > 0)]

validFocusAreas == {"architecture", "security", "performance", "dependencies", "patterns"}
validFormats == {"markdown", "json"}

\* the error the handler's catch block rethrows; code names the throw site
Thrown(code, cause) == [Pending EXCEPT !.kind = "Error", !.code = code, !.cause = cause]

\* the sources a call names
AnalyzeSources ==
  [directory : {None, Some(<<>>), Some(<<"proj">>), Some(<<"misc">>), Some(<<"gone">>),
                Some(P(<<DotDot, <<"x">>>>))},
   filePaths : {None, Some(<<>>),
                Some(<<P(<<<<"src">>, Env>>), SrcIndexTs>>),
                Some(<<P(<<DotDot, <<"x">>>>), P(<<<<"src">>, Env>>)>>),
                Some(<<P(<<<<"src">>, Name("logo", "png")>>)>>)},
   files : {None, Some(<<>>),
            Some(<<AnalyzedFile(<<"m", DOT, "ts">>, TRUE)>>),
            Some(<<AnalyzedFile(<<"m", DOT, "ts">>, TRUE), AnalyzedFile(<<"n", DOT, "ts">>, FALSE)>>)},
   include : {None, Some(<< <<STAR, DOT, "md">> >>)},
   exclude : {None},
   focus : {None},
   outputFormat : {None}]

AnalyzeParams ==
  { [p EXCEPT !.focus = o[1], !.outputFormat = o[2]] :
      p \in AnalyzeSources,
      o \in { <<None, None>>, <<Some("security"), Some("json")>>,
              <<Some("style"), None>>, <<None, Some("yaml")>> } }

\* the handler called with params: no read has been set up yet
AnalyzeCall(params) ==
  [op |-> "handleAnalyzeCodebase", path |-> <<>>, paths |-> <<>>, config |-> NoConfig,
   options |-> NoOptions, params |-> params]

\* the handler about to make read call c
Reading(c) == [c @@ call EXCEPT !.params = call.params]

InitAnalyze == InitCall({AnalyzeCall(p) : p \in AnalyzeParams}, {World})

\* step 1: parameter validation, then the branch for the chosen source is entered
AnalyzeValidate ==
  /\ phase = "call" /\ call.op = "handleAnalyzeCodebase"
  /\ LET params == call.params IN
     IF InputSource(params) = "none"
     THEN outcome' = Thrown("NO_INPUT", "") /\ phase' = "returned" /\ call' = call
     ELSE IF params.focus.has /\ params.focus.v \notin validFocusAreas
     THEN outcome' = Thrown("INVALID_FOCUS", "") /\ phase' = "returned" /\ call' = call
     ELSE IF params.outputFormat.has /\ params.outputFormat.v \notin validFormats
     THEN outcome' = Thrown("INVALID_FORMAT", "") /\ phase' = "returned" /\ call' = call
     ELSE /\ outcome' = outcome
          /\ phase' = "call"
          /\ call' = CASE InputSource(params) = "directory" -> Reading(DirectoryCall(params))
                       [] InputSource(params) = "filePaths" -> Reading(FilePathsCall(params))
                       [] OTHER -> [call EXCEPT !.op = "files"]
  /\ UNCHANGED <<fs, tasks, errors, ioLog>>

\* step 2, directory and filePaths: the read has returned or thrown
AnalyzeCollect ==
  /\ phase = "done"
  /\ IF outcome.kind = "value"
     THEN IF Len(outcome.files) = 0
          THEN /\ outcome' = Thrown(IF call.op = "readDirectory" THEN "NO_MATCHING_FILE"
                                    ELSE "NONE_READABLE", "")
               /\ phase' = "returned"
          ELSE /\ outcome' = Value(convertFileContents(outcome.files))
               /\ phase' = "generate"
     ELSE /\ outcome' = IF outcome.kind = "SecurityError" THEN Thrown("SECURITY", outcome.code)
                        ELSE Thrown("READ", outcome.kind)
          /\ phase' = "returned"
  /\ UNCHANGED <<call, fs, tasks, errors, ioLog>>

\* step 2, files: each entry must have a path and a content
AnalyzeFiles ==
  /\ phase = "call" /\ call.op = "files"
  /\ LET files == call.params.files.v IN
     IF \E i \in 1..Len(files) : files[i].path = <<>> \/ ~files[i].content
     THEN outcome' = Thrown("INVALID_FILE", "") /\ phase' = "returned"
     ELSE outcome' = Value(files) /\ phase' = "generate"
  /\ UNCHANGED <<call, fs, tasks, errors, ioLog>>

\* steps 3-5: the prompt is built from filesToAnalyze, client.generate is
\* awaited and its response (or its failure) is returned
AnalyzeGenerate ==
  /\ phase = "generate"
  /\ ioLog' = Append(ioLog, [op |-> "generate", path |-> <<>>, files |-> outcome.files])
  /\ \E ok \in BOOLEAN :
       outcome' = IF ok THEN outcome ELSE Thrown("API", "")
  /\ phase' = "returned"
  /\ UNCHANGED <<call, fs, tasks, errors>>

NextAnalyze ==
  \/ AnalyzeValidate
  \/ ReadFilesCall
  \/ ReadDirectoryValidate
  \/ ReadDirectoryStat
  \/ ReadDirectoryScan
  \/ \E i \in 1..Len(tasks) : LoadValidate(i)
  \/ \E i \in 1..Len(tasks) : LoadStat(i)
  \/ \E i \in 1..Len(tasks) : LoadSize(i)
  \/ \E i \in 1..Len(tasks) : LoadRead(i)
  \/ ReadFilesReturn
  \/ ReadDirectoryReturn
  \/ AnalyzeCollect
  \/ AnalyzeFiles
  \/ AnalyzeGenerate

SpecAnalyze == InitAnalyze /\ [][NextAnalyze]_vars

\* the paths of a list of files
PathsOf(files) == [i \in 1..Len(files) |-> files[i].path]

\* the model calls made so far
ModelCalls == SelectSeq(ioLog, LAMBDA o : o.op = "generate")

\* C26: handleAnalyzeCodebase reads one source, chosen by the priority
\* directory, filePaths, files; it ends with an error and without a model
\* call when no source is given, when the directory read returns no file
\* and when no path of filePaths loads; with filePaths, the model is called
\* on the paths that loaded even when others were rejected.
C26_OneSourceByPriority ==
  phase = "returned" =>
    LET params == call.params
        d == params.directory.has /\ params.directory.v # <<>>
        fp == params.filePaths.has /\ params.filePaths.v # <<>>
        fl == params.files.has /\ params.files.v # <<>>
        optionsValid == /\ params.focus.has => params.focus.v \in validFocusAreas
                        /\ params.outputFormat.has => params.outputFormat.v \in validFormats
        dirRead == AloneOutcome(DirectoryCall(params), World)
        pathsRead == AloneOutcome(FilePathsCall(params), World)
        called == ModelCalls # <<>>
    IN /\ Len(ModelCalls) <= 1
       /\ outcome.kind = "value" => called
       /\ ~called => outcome.kind = "Error"
       /\ ~optionsValid => ~called
       /\ (~d /\ ~fp /\ ~fl) => ~called
       /\ d => /\ call.op \in {"handleAnalyzeCodebase", "readDirectory"}
               /\ \A k \in 1..Len(tasks) : StartsWith(tasks[k].path, params.directory.v)
       /\ (d /\ optionsValid) =>
            IF dirRead.kind = "value" /\ dirRead.files # <<>>
            THEN called /\ PathsOf(ModelCalls[1].files) = PathsOf(dirRead.files)
            ELSE ~called
       /\ (~d /\ fp) => /\ call.op \in {"handleAnalyzeCodebase", "readFiles"}
                        /\ PathsOf(tasks) \in {<<>>, params.filePaths.v}
       /\ (~d /\ fp /\ optionsValid) =>
            IF pathsRead.files # <<>>
            THEN called /\ PathsOf(ModelCalls[1].files) = PathsOf(pathsRead.files)
            ELSE ~called
       /\ (~d /\ ~fp /\ fl) =>
            /\ tasks = <<>>
            /\ called => ModelCalls[1].files = params.files.v

\* filePaths held a path the security gate rejects and one that loads, a
\* files array was passed too, and the model was called on the loaded path only
C26_Witness ==
  /\ phase = "returned" /\ outcome.kind = "value"
  /\ ~hasDirectory(call.params) /\ hasFilePaths(call.params) /\ hasFiles(call.params)
  /\ \E i \in 1..Len(call.params.filePaths.v) :
       validatePath(call.params.filePaths.v[i], NoConfig, World).code # ""
  /\ PathsOf(ModelCalls[1].files) = <<SrcIndexTs>>

----------------------------------------------------------------------------
(* C27: the outcome partition of readFiles *)

\* the positions of the input list in each of the three classes
BinaryInputs == {i \in 1..Len(call.paths) : HasBinaryExtension(call.paths[i])}
DiagnosedInputs == {i \in 1..Len(tasks) : tasks[i].pc = "failed"}
LoadedInputs == {i \in 1..Len(tasks) : tasks[i].pc = "done"}

\* C27: in every interleaving of the loads of a readFiles call the
\* diagnostics array holds one entry per load that failed so far, none lost
\* or duplicated; when the call returns every input is in exactly one of
\* the classes returned, diagnosed, binary, so that results + diagnostics +
\* binary inputs = length of the input list.
C27_OutcomePartition ==
  (call.op = "readFiles" /\ phase \in {"loading", "done"}) =>
    /\ Len(errors) = Cardinality(DiagnosedInputs)
    /\ \A i \in DiagnosedInputs :
         Cardinality({k \in 1..Len(errors) : errors[k].path = call.paths[i]})
           = Cardinality({j \in DiagnosedInputs : call.paths[j] = call.paths[i]})
    /\ phase = "done" =>
         /\ Len(outcome.files) = Cardinality(LoadedInputs)
         /\ LoadedInputs \cup DiagnosedInputs \cup BinaryInputs = 1..Len(call.paths)
         /\ LoadedInputs \cap DiagnosedInputs = {}
         /\ LoadedInputs \cap BinaryInputs = {}
         /\ DiagnosedInputs \cap BinaryInputs = {}
         /\ Len(outcome.files) + Len(errors) + Cardinality(BinaryInputs) = Len(call.paths)

\* a call returned with two diagnostics that were appended in the reverse of
\* the input order
C27_Witness ==
  /\ call.op = "readFiles" /\ phase = "done"
  /\ Len(errors) >= 2
  /\ \E i, j \in DiagnosedInputs :
       /\ i < j
       /\ errors[1].path = call.paths[j]
       /\ errors[2].path = call.paths[i]

----------------------------------------------------------------------------
(* C28: what a batch read returns *)

\* the path the load behind returned entry f was started on
LoadedPath(f) == IF call.op = "readDirectory" THEN PathJoin(call.path, f.path) ELSE f.path

\* the ceiling on the file count as the configuration documents it: the
\* direct option, else securityConfig.maxFiles, else 500
EffectiveMaxFiles ==
  OrElse(call.options.maxFiles,
         OrElse(call.options.securityConfig.maxFiles, DEFAULT_MAX_FILES))

\* the returned entries are accepted, non-binary paths; an enumerated
\* sensitive file is counted (it has a load) and not returned
ReturnedAreAccepted ==
  BatchReturned =>
    /\ \A j \in 1..Len(outcome.files) :
         /\ validatePath(LoadedPath(outcome.files[j]), LoadConfig, fs).code = ""
         /\ ~HasBinaryExtension(LoadedPath(outcome.files[j]))
    /\ call.op = "readDirectory" =>
         /\ Len(tasks) = Enumerated
         /\ \A i \in 1..Len(tasks) :
              isSensitiveFile(tasks[i].path, SpreadConfig(LoadConfig).sensitivePatterns) =>
                /\ tasks[i].pc = "failed"
                /\ \A j \in 1..Len(outcome.files) : LoadedPath(outcome.files[j]) # tasks[i].path

\* C28: every FileContent returned by readFiles or readDirectory belongs to
\* a path validatePath accepted under the call's securityConfig and without
\* a binary extension; an enumerated sensitive file is counted towards
\* maxFiles and never returned; readDirectory never returns more entries
\* than the effective maxFiles (direct option, else securityConfig.maxFiles,
\* else 500).
C28_ReturnedWithinLimits ==
  /\ ReturnedAreAccepted
  /\ (BatchReturned /\ call.op = "readDirectory") => Len(outcome.files) <= EffectiveMaxFiles

----------------------------------------------------------------------------
(* SpecWriter: readFile on a file that another process rewrites, truncates *)
(* or removes between readFile's awaited operations.                        *)

\* the file the call reads, as the call names it
WriterPath == <<"f", DOT, "ts">>

\* the sizes the writer gives the file
WriterSizes == {0, 9, 10, BigSize}

\* the file of size s, or no file
WriterFs == {(PathResolve(WriterPath) :> File(s)) : s \in WriterSizes} \cup {EmptyFs}

WriterCalls ==
  {Call("readFile", WriterPath, c) : c \in {NoConfig, [NoConfig EXCEPT !.maxFileSize = Some(9)]}}

InitWriter == InitCall(WriterCalls, WriterFs)

\* the other process writes the file out with a new size (creating it if needed)
WriterWrite ==
  /\ phase # "done"
  /\ \E s \in WriterSizes :
       /\ fs' = (PathResolve(WriterPath) :> File(s))
       /\ fs' # fs
  /\ UNCHANGED <<call, phase, tasks, errors, ioLog, outcome>>

\* the other process removes the file
WriterRemove ==
  /\ phase # "done"
  /\ fs # EmptyFs
  /\ fs' = EmptyFs
  /\ UNCHANGED <<call, phase, tasks, errors, ioLog, outcome>>

NextWriter ==
  \/ ReadFileCall
  \/ LoadValidate(1)
  \/ LoadStat(1)
  \/ LoadSize(1)
  \/ LoadRead(1)
  \/ ReadFileReturn
  \/ WriterWrite
  \/ WriterRemove

SpecWriter == InitWriter /\ [][NextWriter]_vars

\* C30: every FileContent returned by readFile has a size field that is at
\* most the effective maxFileSize (config.maxFileSize, else 1,048,576), in
\* every interleaving with a writer that changes the file's size.
C30_ReturnedSizeWithinCeiling ==
  (call.op = "readFile" /\ phase = "done" /\ outcome.kind = "value") =>
    outcome.files[1].size <= OrElse(call.config.maxFileSize, DEFAULT_MAX_FILE_SIZE)

====
